---- MODULE Spec2Model ----
(***************************************************************************)
(* Model of the tick-indexed order book of the matching engine             *)
(* (src/src/domain/orderbook/tick_based.rs) together with the two          *)
(* collections it is built on: FastBitmap (fast_bitmap.rs) and RingBuffer  *)
(* (ringbuffer.rs).                                                        *)
(*                                                                         *)
(* Representation choices                                                  *)
(*  - Option<T>: None is the empty tuple, Some(x) the one-element tuple.   *)
(*  - a u64 bitmap word is the set of the positions of its 1 bits, so      *)
(*    trailing_zeros is the minimum and 63 - leading_zeros the maximum of  *)
(*    a non-zero word, `w | (1 << b)` is w \cup {b}, and a mask is a set   *)
(*    of positions.                                                        *)
(*  - a MaybeUninit slot of a ring buffer that holds no live value is the  *)
(*    record Uninit.                                                       *)
(***************************************************************************)
EXTENDS Integers, Sequences, FiniteSets, TLC

(* ------------------------------------------------------------------ *)
(* Contract configuration (the one of the unit tests) and model bounds *)
(* ------------------------------------------------------------------ *)
TickSize == 10
MinPrice == 1000
\* index of the highest price level: one past the first 64-bit bitmap word
MaxIndex == 64
MaxPrice == MinPrice + MaxIndex * TickSize
WordBits == 64

\* per-level queue capacity of the contract (ContractSpec.queue_capacity)
QueueCapacity == 2
\* match_order is called while next_order_id <= MaxOrderId
MaxOrderId == 3
\* requested quantities are 1..MaxQty
MaxQty == 2
\* submitters are 1..MaxUser
MaxUser == 2

\* Prices offered to match_order: below range, min_price, off tick, the two
\* sides of the first 64-bit word boundary (indices 63 and 64), max_price,
\* above range.
Prices == {MinPrice - TickSize, MinPrice, MinPrice + 5,
           MinPrice + 63 * TickSize, MinPrice + 64 * TickSize,
           MaxPrice, MaxPrice + TickSize}
Quantities == 1..MaxQty
Users == 1..MaxUser
Sides == {"Buy", "Sell"}

None == <<>>
Some(x) == <<x>>
IsSome(o) == o # <<>>
Unwrap(o) == o[1]

SetMin(S) == CHOOSE x \in S : \A y \in S : x <= y
SetMax(S) == CHOOSE x \in S : \A y \in S : x >= y
Min(a, b) == IF a <= b THEN a ELSE b

(* ------------------------------------------------------------------ *)
(* FastBitmap                                                          *)
(* ------------------------------------------------------------------ *)

\* FastBitmap::new
BitmapNew(len) ==
    LET num_blocks == (len + 63) \div 64
    IN  [blocks |-> [b \in 0..(num_blocks - 1) |-> {}], len |-> len]

\* FastBitmap::set
BitmapSet(bm, index, value) ==
    LET block_idx == index \div 64
        bit_offset == index % 64
    IN  IF value
        THEN [bm EXCEPT !.blocks[block_idx] = @ \cup {bit_offset}]
        ELSE [bm EXCEPT !.blocks[block_idx] = @ \ {bit_offset}]

\* FastBitmap::get
BitmapGet(bm, index) == (index % 64) \in bm.blocks[index \div 64]

\* (1u64 << k) - 1 for a shift amount k < 64: the bits below k
LowMask(k) == 0..(k - 1)
\* !((1u64 << k) - 1): the bits from k upwards
HighMask(k) == k..(WordBits - 1)

RECURSIVE ScanLast(_, _)
\* the `for ... in blocks.iter().enumerate().rev()` loop of find_last_one
ScanLast(bm, block_idx) ==
    IF block_idx < 0 THEN None
    ELSE LET block == bm.blocks[block_idx]
         IN  IF block # {} /\ block_idx * 64 + SetMax(block) < bm.len
             THEN Some(block_idx * 64 + SetMax(block))
             ELSE ScanLast(bm, block_idx - 1)

\* find_last_one that does not look at the last block
find_last_one_SkipsLastBlock(bm) == ScanLast(bm, Cardinality(DOMAIN bm.blocks) - 2)

\* FastBitmap::find_last_one
find_last_one(bm) == ScanLast(bm, Cardinality(DOMAIN bm.blocks) - 1)

RECURSIVE ScanFirst(_, _)
\* the forward block loop of find_first_one and find_next_one
ScanFirst(bm, block_idx) ==
    IF block_idx >= Cardinality(DOMAIN bm.blocks) THEN None
    ELSE LET block == bm.blocks[block_idx]
         IN  IF block # {} /\ block_idx * 64 + SetMin(block) < bm.len
             THEN Some(block_idx * 64 + SetMin(block))
             ELSE ScanFirst(bm, block_idx + 1)

\* FastBitmap::find_first_one
find_first_one(bm) == ScanFirst(bm, 0)

\* FastBitmap::find_next_one
find_next_one(bm, start) ==
    IF start + 1 >= bm.len THEN None
    ELSE LET next_index == start + 1
             start_block == next_index \div 64
             start_bit == next_index % 64
             masked == bm.blocks[start_block] \cap HighMask(start_bit)
         IN  IF start_bit > 0 /\ masked # {}
                /\ start_block * 64 + SetMin(masked) < bm.len
             THEN Some(start_block * 64 + SetMin(masked))
             ELSE ScanFirst(bm, start_block + 1)

RECURSIVE ScanPrev(_, _)
\* the `for block_idx in (0..start_block).rev()` loop of find_prev_one
ScanPrev(bm, block_idx) ==
    IF block_idx < 0 THEN None
    ELSE LET block == bm.blocks[block_idx]
         IN  IF block # {}
             THEN Some(block_idx * 64 + SetMax(block))
             ELSE ScanPrev(bm, block_idx - 1)

\* find_prev_one computes 1u64 << (start_bit + 1); the shift amount is 64
\* when start - 1 is the last bit of a word. With overflow checks the
\* shift panics, without them the amount wraps to 0.
PrevShiftOverflows(start) == start # 0 /\ ((start - 1) % 64) + 1 >= WordBits

\* FastBitmap::find_prev_one, as it returns when the shift does not panic
find_prev_one(bm, start) ==
    IF start = 0 THEN None
    ELSE LET prev_index == start - 1
             start_block == prev_index \div 64
             start_bit == prev_index % 64
             mask == LowMask((start_bit + 1) % WordBits)
             masked == bm.blocks[start_block] \cap mask
         IN  IF masked # {}
             THEN Some(start_block * 64 + SetMax(masked))
             ELSE ScanPrev(bm, start_block - 1)

(* ------------------------------------------------------------------ *)
(* RingBuffer                                                          *)
(* ------------------------------------------------------------------ *)

Uninit == [user_id |-> 0, order_id |-> 0, price |-> 0, quantity |-> 0,
           cancelled |-> FALSE]

\* RingBuffer::with_capacity
RbWithCapacity(capacity) ==
    [buffer |-> [i \in 0..(capacity - 1) |-> Uninit],
     capacity |-> capacity, head |-> 0, tail |-> 0, len |-> 0]

\* RingBuffer::push that enqueues at the head instead of the tail
RbPushFront(rb, value) ==
    IF rb.len >= rb.capacity
    THEN [ok |-> FALSE, rb |-> rb]
    ELSE LET h == (rb.head + rb.capacity - 1) % rb.capacity
         IN  [ok |-> TRUE,
              rb |-> [rb EXCEPT !.buffer[h] = value,
                                !.head = h,
                                !.len = rb.len + 1]]

\* RingBuffer::push that overwrites the oldest element of a full buffer
RbPushOverwrites(rb, value) ==
    IF rb.len >= rb.capacity
    THEN [ok |-> TRUE,
          rb |-> [rb EXCEPT !.buffer[rb.tail] = value,
                            !.tail = (rb.tail + 1) % rb.capacity,
                            !.head = (rb.head + 1) % rb.capacity]]
    ELSE [ok |-> TRUE,
          rb |-> [rb EXCEPT !.buffer[rb.tail] = value,
                            !.tail = (rb.tail + 1) % rb.capacity,
                            !.len = rb.len + 1]]

\* RingBuffer::push: [ok, rb]
RbPush(rb, value) ==
    IF rb.len >= rb.capacity
    THEN [ok |-> FALSE, rb |-> rb]
    ELSE [ok |-> TRUE,
          rb |-> [rb EXCEPT !.buffer[rb.tail] = value,
                            !.tail = (rb.tail + 1) % rb.capacity,
                            !.len = rb.len + 1]]

\* RingBuffer::pop that removes the newest element instead of the oldest
RbPopNewest(rb) ==
    IF rb.len = 0
    THEN [value |-> None, rb |-> rb]
    ELSE LET t == (rb.tail + rb.capacity - 1) % rb.capacity
         IN  [value |-> Some(rb.buffer[t]),
              rb |-> [rb EXCEPT !.buffer[t] = Uninit,
                                !.tail = t,
                                !.len = rb.len - 1]]

\* RingBuffer::pop: [value (an Option), rb]
RbPop(rb) ==
    IF rb.len = 0
    THEN [value |-> None, rb |-> rb]
    ELSE [value |-> Some(rb.buffer[rb.head]),
          rb |-> [rb EXCEPT !.buffer[rb.head] = Uninit,
                            !.head = (rb.head + 1) % rb.capacity,
                            !.len = rb.len - 1]]

\* RingBuffer::front / front_mut
RbFront(rb) == IF rb.len = 0 THEN None ELSE Some(rb.buffer[rb.head])

\* RingBuffer::is_empty
RbIsEmpty(rb) == rb.len = 0

RECURSIVE RbClear(_)
\* RingBuffer::clear: `while self.pop().is_some() {}`
RbClear(rb) == IF RbPop(rb).value = None THEN rb ELSE RbClear(RbPop(rb).rb)

RECURSIVE RbDrain(_, _)
\* RingBuffer::drain consumed to its end: Drain::next is pop; [values, rb]
RbDrain(rb, values) ==
    IF RbPop(rb).value = None THEN [values |-> values, rb |-> rb]
    ELSE RbDrain(RbPop(rb).rb, Append(values, Unwrap(RbPop(rb).value)))

\* the live elements of a ring buffer, oldest first
RbSeq(rb) == [i \in 1..rb.len |-> rb.buffer[(rb.head + i - 1) % rb.capacity]]

(* ------------------------------------------------------------------ *)
(* TickBasedOrderBook                                                  *)
(* ------------------------------------------------------------------ *)

\* TickBasedOrderBook::with_symbol_pool: number of price levels
NumLevels == ((MaxPrice - MinPrice) \div TickSize) + 1
\* The level arrays have one slot per index 0..NumLevels-1. A slot is only
\* ever written at the index of a price match_order was called with, so the
\* slots at which none of the offered Prices lies are None for ever; the
\* model keeps the slots of the offered prices only. The bitmaps keep all
\* NumLevels bits.
Levels == {i \in 0..(NumLevels - 1) :
             \E p \in Prices : p = MinPrice + i * TickSize}

\* HashMap::insert / HashMap::remove on order_locations
MapInsert(m, k, v) == (k :> v) @@ m
MapRemove(m, k) == [x \in (DOMAIN m) \ {k} |-> m[x]]

\* TickBasedOrderBook::with_symbol_pool
BookNew ==
    [bid_levels |-> [i \in Levels |-> None],
     ask_levels |-> [i \in Levels |-> None],
     bid_bitmap |-> BitmapNew(NumLevels),
     ask_bitmap |-> BitmapNew(NumLevels),
     best_bid_idx |-> None,
     best_ask_idx |-> None,
     next_order_id |-> 1,
     order_locations |-> << >>,
     queue_capacity |-> QueueCapacity]

\* price_to_index without the tick-alignment check
price_to_index_NoTickCheck(price) ==
    IF price < MinPrice \/ price > MaxPrice THEN None
    ELSE Some((price - MinPrice) \div TickSize)

\* TickBasedOrderBook::price_to_index
price_to_index(price) ==
    IF price < MinPrice \/ price > MaxPrice THEN None
    ELSE IF (price - MinPrice) % TickSize # 0 THEN None
    ELSE Some((price - MinPrice) \div TickSize)

\* TickBasedOrderBook::index_to_price
index_to_price(index) == MinPrice + index * TickSize

\* TickBasedOrderBook::find_best_bid / find_best_ask / find_next_ask
find_best_bid(bk) == find_last_one(bk.bid_bitmap)
find_best_ask(bk) == find_first_one(bk.ask_bitmap)
find_next_ask(bk, current_idx) == find_next_one(bk.ask_bitmap, current_idx)
\* TickBasedOrderBook::find_next_bid (when the shift in find_prev_one does not panic)
find_next_bid(bk, current_idx) == find_prev_one(bk.bid_bitmap, current_idx)

\* TickBasedOrderBook::best_bid / best_ask
best_bid(bk) ==
    IF bk.best_bid_idx = None THEN None
    ELSE Some(index_to_price(Unwrap(bk.best_bid_idx)))
best_ask(bk) ==
    IF bk.best_ask_idx = None THEN None
    ELSE Some(index_to_price(Unwrap(bk.best_ask_idx)))

\* add_bid_order that records the location even when the push failed
add_bid_order_AlwaysRecords(bk, idx, user_id, quantity, order_id) ==
    LET order == [user_id |-> user_id, order_id |-> order_id,
                  price |-> MinPrice + idx * TickSize, quantity |-> quantity,
                  cancelled |-> FALSE]
        queue == IF IsSome(bk.bid_levels[idx]) THEN Unwrap(bk.bid_levels[idx])
                 ELSE RbWithCapacity(bk.queue_capacity)
        pushed == RbPush(queue, order)
    IN  [bk EXCEPT
           !.bid_levels[idx] = Some(pushed.rb),
           !.order_locations =
               MapInsert(@, order_id, [price_idx |-> idx, is_bid |-> TRUE]),
           !.bid_bitmap = BitmapSet(@, idx, TRUE),
           !.best_bid_idx = IF @ = None \/ idx > Unwrap(@) THEN Some(idx) ELSE @]

\* TickBasedOrderBook::add_bid_order
add_bid_order(bk, idx, user_id, quantity, order_id) ==
    LET order == [user_id |-> user_id, order_id |-> order_id,
                  price |-> index_to_price(idx), quantity |-> quantity,
                  cancelled |-> FALSE]
        queue == IF IsSome(bk.bid_levels[idx]) THEN Unwrap(bk.bid_levels[idx])
                 ELSE RbWithCapacity(bk.queue_capacity)
        pushed == RbPush(queue, order)
    IN  [bk EXCEPT
           !.bid_levels[idx] = Some(pushed.rb),
           !.order_locations =
               IF pushed.ok
               THEN MapInsert(@, order_id, [price_idx |-> idx, is_bid |-> TRUE])
               ELSE @,
           !.bid_bitmap = BitmapSet(@, idx, TRUE),
           !.best_bid_idx = IF @ = None \/ idx > Unwrap(@) THEN Some(idx) ELSE @]

\* TickBasedOrderBook::add_ask_order
add_ask_order(bk, idx, user_id, quantity, order_id) ==
    LET order == [user_id |-> user_id, order_id |-> order_id,
                  price |-> index_to_price(idx), quantity |-> quantity,
                  cancelled |-> FALSE]
        queue == IF IsSome(bk.ask_levels[idx]) THEN Unwrap(bk.ask_levels[idx])
                 ELSE RbWithCapacity(bk.queue_capacity)
        pushed == RbPush(queue, order)
    IN  [bk EXCEPT
           !.ask_levels[idx] = Some(pushed.rb),
           !.order_locations =
               IF pushed.ok
               THEN MapInsert(@, order_id, [price_idx |-> idx, is_bid |-> FALSE])
               ELSE @,
           !.ask_bitmap = BitmapSet(@, idx, TRUE),
           !.best_ask_idx = IF @ = None \/ idx < Unwrap(@) THEN Some(idx) ELSE @]

\* TradeNotification built in the Buy branch of match_order
\* a trade reported at the incoming order's limit instead of the level's price
BuyTradeAtLimit(request, new_order_id, price, trade_qty, counter_order) ==
    [trade_id |-> 0, matched_price |-> request.price,
     matched_quantity |-> trade_qty,
     buyer_user_id |-> request.user_id, buyer_order_id |-> new_order_id,
     seller_user_id |-> counter_order.user_id,
     seller_order_id |-> counter_order.order_id, timestamp |-> 0]

BuyTrade(request, new_order_id, price, trade_qty, counter_order) ==
    [trade_id |-> 0, matched_price |-> price, matched_quantity |-> trade_qty,
     buyer_user_id |-> request.user_id, buyer_order_id |-> new_order_id,
     seller_user_id |-> counter_order.user_id,
     seller_order_id |-> counter_order.order_id, timestamp |-> 0]

\* TradeNotification built in the Sell branch of match_order
SellTrade(request, new_order_id, price, trade_qty, counter_order) ==
    [trade_id |-> 0, matched_price |-> price, matched_quantity |-> trade_qty,
     buyer_user_id |-> counter_order.user_id,
     buyer_order_id |-> counter_order.order_id,
     seller_user_id |-> request.user_id, seller_order_id |-> new_order_id,
     timestamp |-> 0]

RECURSIVE BuyLevelLoop(_, _, _, _, _, _, _)
\* match_order, Buy branch: `while let Some(counter_order) = queue.front_mut()`
BuyLevelLoop(queue, locs, remaining_quantity, trades, price, request, new_order_id) ==
    LET stop == [queue |-> queue, locs |-> locs,
                 remaining_quantity |-> remaining_quantity, trades |-> trades]
    IN  IF RbFront(queue) = None THEN stop
        ELSE IF remaining_quantity = 0 THEN stop
        ELSE
          LET counter_order == Unwrap(RbFront(queue))
          IN  IF counter_order.cancelled
              THEN BuyLevelLoop(RbPop(queue).rb,
                                MapRemove(locs, counter_order.order_id),
                                remaining_quantity, trades, price, request,
                                new_order_id)
              ELSE
                LET trade_qty == Min(remaining_quantity, counter_order.quantity)
                    trades2 == Append(trades,
                                 BuyTrade(request, new_order_id, price, trade_qty,
                                          counter_order))
                    remaining2 == remaining_quantity - trade_qty
                    queue2 == [queue EXCEPT !.buffer[queue.head].quantity =
                                                 @ - trade_qty]
                IN  IF counter_order.quantity - trade_qty = 0
                    THEN BuyLevelLoop(RbPop(queue2).rb,
                                      MapRemove(locs, counter_order.order_id),
                                      remaining2, trades2, price, request,
                                      new_order_id)
                    ELSE [queue |-> queue2, locs |-> locs,
                          remaining_quantity |-> remaining2, trades |-> trades2]

RECURSIVE SellLevelLoop(_, _, _, _, _, _, _)
\* match_order, Sell branch: `while let Some(counter_order) = queue.front_mut()`
SellLevelLoop(queue, locs, remaining_quantity, trades, price, request, new_order_id) ==
    LET stop == [queue |-> queue, locs |-> locs,
                 remaining_quantity |-> remaining_quantity, trades |-> trades]
    IN  IF RbFront(queue) = None THEN stop
        ELSE IF remaining_quantity = 0 THEN stop
        ELSE
          LET counter_order == Unwrap(RbFront(queue))
          IN  IF counter_order.cancelled
              THEN SellLevelLoop(RbPop(queue).rb,
                                 MapRemove(locs, counter_order.order_id),
                                 remaining_quantity, trades, price, request,
                                 new_order_id)
              ELSE
                LET trade_qty == Min(remaining_quantity, counter_order.quantity)
                    trades2 == Append(trades,
                                 SellTrade(request, new_order_id, price, trade_qty,
                                           counter_order))
                    remaining2 == remaining_quantity - trade_qty
                    queue2 == [queue EXCEPT !.buffer[queue.head].quantity =
                                                 @ - trade_qty]
                IN  IF counter_order.quantity - trade_qty = 0
                    THEN SellLevelLoop(RbPop(queue2).rb,
                                       MapRemove(locs, counter_order.order_id),
                                       remaining2, trades2, price, request,
                                       new_order_id)
                    ELSE [queue |-> queue2, locs |-> locs,
                          remaining_quantity |-> remaining2, trades |-> trades2]

\* the Buy-branch cleanup that leaves the bitmap bit of an emptied level set
BuyLevelDoneKeepsBit(bk, idx, r) ==
    [bk |-> IF RbIsEmpty(r.queue)
            THEN [bk EXCEPT !.order_locations = r.locs,
                            !.ask_levels[idx] = None]
            ELSE [bk EXCEPT !.order_locations = r.locs,
                            !.ask_levels[idx] = Some(r.queue)],
     remaining_quantity |-> r.remaining_quantity,
     trades |-> r.trades]

\* the Buy-branch level step that moves the head of the queue it leaves
\* behind to the back
BuyLevelDoneRequeuesHead(bk, idx, r) ==
    [bk |-> IF RbIsEmpty(r.queue)
            THEN [bk EXCEPT !.order_locations = r.locs,
                            !.ask_levels[idx] = None,
                            !.ask_bitmap = BitmapSet(@, idx, FALSE)]
            ELSE [bk EXCEPT !.order_locations = r.locs,
                            !.ask_levels[idx] =
                                Some(RbPush(RbPop(r.queue).rb,
                                            Unwrap(RbPop(r.queue).value)).rb)],
     remaining_quantity |-> r.remaining_quantity,
     trades |-> r.trades]

\* match_order, Buy branch: the book after the level loop r of level idx,
\* with the `if queue.is_empty()` cleanup
BuyLevelDone(bk, idx, r) ==
    [bk |-> IF RbIsEmpty(r.queue)
            THEN [bk EXCEPT !.order_locations = r.locs,
                            !.ask_levels[idx] = None,
                            !.ask_bitmap = BitmapSet(@, idx, FALSE)]
            ELSE [bk EXCEPT !.order_locations = r.locs,
                            !.ask_levels[idx] = Some(r.queue)],
     remaining_quantity |-> r.remaining_quantity,
     trades |-> r.trades]

\* the Sell-branch level step that reports the fills of the level loop but
\* leaves the queue of the level as it was
SellLevelDoneForgetsFills(bk, idx, r) ==
    [bk |-> [bk EXCEPT !.order_locations = r.locs],
     remaining_quantity |-> r.remaining_quantity,
     trades |-> r.trades]

\* match_order, Sell branch: the book after the level loop r of level idx,
\* with the `if queue.is_empty()` cleanup
SellLevelDone(bk, idx, r) ==
    [bk |-> IF RbIsEmpty(r.queue)
            THEN [bk EXCEPT !.order_locations = r.locs,
                            !.bid_levels[idx] = None,
                            !.bid_bitmap = BitmapSet(@, idx, FALSE)]
            ELSE [bk EXCEPT !.order_locations = r.locs,
                            !.bid_levels[idx] = Some(r.queue)],
     remaining_quantity |-> r.remaining_quantity,
     trades |-> r.trades]

\* match_order, Buy branch: the body of `if let Some(queue) = &mut self.ask_levels[idx]`
BuyLevel(bk, idx, remaining_quantity, trades, request, new_order_id) ==
    IF bk.ask_levels[idx] = None
    THEN [bk |-> bk, remaining_quantity |-> remaining_quantity, trades |-> trades]
    ELSE BuyLevelDone(bk, idx,
             BuyLevelLoop(Unwrap(bk.ask_levels[idx]), bk.order_locations,
                          remaining_quantity, trades, index_to_price(idx),
                          request, new_order_id))

\* match_order, Sell branch: the body of `if let Some(queue) = &mut self.bid_levels[idx]`
SellLevel(bk, idx, remaining_quantity, trades, request, new_order_id) ==
    IF bk.bid_levels[idx] = None
    THEN [bk |-> bk, remaining_quantity |-> remaining_quantity, trades |-> trades]
    ELSE SellLevelDone(bk, idx,
             SellLevelLoop(Unwrap(bk.bid_levels[idx]), bk.order_locations,
                           remaining_quantity, trades, index_to_price(idx),
                           request, new_order_id))

RECURSIVE BuyLoop(_, _, _, _, _, _)
\* match_order, Buy branch: `current_idx = self.find_next_ask(idx)` after the
\* level step r, and the next iteration
BuyAdvance(r, idx, request, new_order_id) ==
    BuyLoop(r.bk, find_next_ask(r.bk, idx), r.remaining_quantity, r.trades,
            request, new_order_id)

\* match_order, Buy branch: `while let Some(idx) = current_idx`
BuyLoop(bk, current_idx, remaining_quantity, trades, request, new_order_id) ==
    IF \/ current_idx = None
       \/ remaining_quantity = 0
       \/ index_to_price(Unwrap(current_idx)) > request.price
    THEN [bk |-> bk, remaining_quantity |-> remaining_quantity,
          trades |-> trades, panicked |-> FALSE]
    ELSE BuyAdvance(BuyLevel(bk, Unwrap(current_idx), remaining_quantity,
                             trades, request, new_order_id),
                    Unwrap(current_idx), request, new_order_id)

RECURSIVE SellLoop(_, _, _, _, _, _, _)
\* match_order, Sell branch: `current_idx = self.find_next_bid(idx)` after the
\* level step r, and the next iteration; checks is TRUE in a build with
\* overflow checks, where find_prev_one panics instead of wrapping the shift
SellAdvance(r, idx, request, new_order_id, checks) ==
    IF checks /\ PrevShiftOverflows(idx)
    THEN [bk |-> r.bk, remaining_quantity |-> r.remaining_quantity,
          trades |-> r.trades, panicked |-> TRUE]
    ELSE SellLoop(r.bk, find_next_bid(r.bk, idx), r.remaining_quantity,
                  r.trades, request, new_order_id, checks)

\* match_order, Sell branch: `while let Some(idx) = current_idx`
SellLoop(bk, current_idx, remaining_quantity, trades, request, new_order_id, checks) ==
    IF \/ current_idx = None
       \/ remaining_quantity = 0
       \/ index_to_price(Unwrap(current_idx)) < request.price
    THEN [bk |-> bk, remaining_quantity |-> remaining_quantity,
          trades |-> trades, panicked |-> FALSE]
    ELSE SellAdvance(SellLevel(bk, Unwrap(current_idx), remaining_quantity,
                               trades, request, new_order_id),
                     Unwrap(current_idx), request, new_order_id, checks)

\* match_order that draws the order id without incrementing the counter
MatchLoopNoIncrement(bk, request, new_order_id, checks) ==
    IF request.order_type = "Buy"
    THEN BuyLoop(bk, bk.best_ask_idx, request.quantity, << >>, request,
                 new_order_id)
    ELSE SellLoop(bk, bk.best_bid_idx, request.quantity, << >>, request,
                  new_order_id, checks)

\* match_order: the order id is drawn and the counter incremented, then the
\* matching loop of the request's side runs
MatchLoop(bk, request, new_order_id, checks) ==
    IF request.order_type = "Buy"
    THEN BuyLoop([bk EXCEPT !.next_order_id = @ + 1], bk.best_ask_idx,
                 request.quantity, << >>, request, new_order_id)
    ELSE SellLoop([bk EXCEPT !.next_order_id = @ + 1], bk.best_bid_idx,
                  request.quantity, << >>, request, new_order_id, checks)

\* match_order after the matching loop m: the opposite best-price cache is
\* recomputed and the residual, if any, is added to the request's side
MatchRest(bk, request, request_idx, remaining_quantity, new_order_id) ==
    IF request.order_type = "Buy"
    THEN IF remaining_quantity > 0
         THEN add_bid_order([bk EXCEPT !.best_ask_idx = find_best_ask(bk)],
                            request_idx, request.user_id, remaining_quantity,
                            new_order_id)
         ELSE [bk EXCEPT !.best_ask_idx = find_best_ask(bk)]
    ELSE IF remaining_quantity > 0
         THEN add_ask_order([bk EXCEPT !.best_bid_idx = find_best_bid(bk)],
                            request_idx, request.user_id, remaining_quantity,
                            new_order_id)
         ELSE [bk EXCEPT !.best_bid_idx = find_best_bid(bk)]

\* match_order whose confirmation carries a freshly drawn id instead of new_order_id
MatchFinishConfirmsFresh(m, request, request_idx, new_order_id) ==
    IF m.panicked
    THEN [bk |-> m.bk, trades |-> << >>, confirmation |-> None,
          panicked |-> TRUE]
    ELSE [bk |-> MatchRest(m.bk, request, request_idx, m.remaining_quantity,
                           new_order_id),
          trades |-> m.trades,
          confirmation |-> IF m.remaining_quantity > 0
                           THEN Some([user_id |-> request.user_id,
                                      order_id |-> new_order_id + 1])
                           ELSE None,
          panicked |-> FALSE]

\* match_order: what the call returns after the matching loop m (nothing
\* when the loop panicked: the book is left as the loop left it)
MatchFinish(m, request, request_idx, new_order_id) ==
    IF m.panicked
    THEN [bk |-> m.bk, trades |-> << >>, confirmation |-> None,
          panicked |-> TRUE]
    ELSE [bk |-> MatchRest(m.bk, request, request_idx, m.remaining_quantity,
                           new_order_id),
          trades |-> m.trades,
          confirmation |-> IF m.remaining_quantity > 0
                           THEN Some([user_id |-> request.user_id,
                                      order_id |-> new_order_id])
                           ELSE None,
          panicked |-> FALSE]

\* TickBasedOrderBook::match_order: [bk, trades, confirmation, panicked]
match_order(bk, request, checks) ==
    IF price_to_index(request.price) = None
    THEN [bk |-> bk, trades |-> << >>, confirmation |-> None, panicked |-> FALSE]
    ELSE MatchFinish(MatchLoop(bk, request, bk.next_order_id, checks),
                     request, Unwrap(price_to_index(request.price)),
                     bk.next_order_id)

RECURSIVE CancelDrainKeepsTarget(_, _, _, _)
\* the drain loop of cancel_order that finds the target but puts it back
CancelDrainKeepsTarget(queue, order_id, temp_orders, found) ==
    LET p == RbPop(queue)
    IN  IF p.value = None
        THEN [queue |-> queue, temp_orders |-> temp_orders, found |-> found]
        ELSE CancelDrainKeepsTarget(p.rb, order_id,
                                    Append(temp_orders, Unwrap(p.value)),
                                    found \/ Unwrap(p.value).order_id = order_id)

RECURSIVE CancelDrain(_, _, _, _)
\* cancel_order step 3: `while let Some(order) = queue.pop()`
CancelDrain(queue, order_id, temp_orders, found) ==
    LET p == RbPop(queue)
    IN  IF p.value = None
        THEN [queue |-> queue, temp_orders |-> temp_orders, found |-> found]
        ELSE IF Unwrap(p.value).order_id = order_id
        THEN CancelDrain(p.rb, order_id, temp_orders, TRUE)
        ELSE CancelDrain(p.rb, order_id, Append(temp_orders, Unwrap(p.value)), found)

RECURSIVE CancelRefillReversed(_, _)
\* a refill that puts the drained orders back newest first
CancelRefillReversed(queue, temp_orders) ==
    IF temp_orders = << >> THEN queue
    ELSE CancelRefillReversed(
             RbPush(queue, temp_orders[Len(temp_orders)]).rb,
             SubSeq(temp_orders, 1, Len(temp_orders) - 1))

RECURSIVE CancelRefill(_, _)
\* cancel_order step 3: `for order in temp_orders { let _ = queue.push(order); }`
CancelRefill(queue, temp_orders) ==
    IF temp_orders = << >> THEN queue
    ELSE CancelRefill(RbPush(queue, Head(temp_orders)).rb, Tail(temp_orders))

\* step 4 of cancel_order without the recomputation of the best-price cache
CancelCleanupKeepsBest(bk, location) ==
    IF location.is_bid
    THEN [bk EXCEPT !.bid_bitmap = BitmapSet(@, location.price_idx, FALSE)]
    ELSE [bk EXCEPT !.ask_bitmap = BitmapSet(@, location.price_idx, FALSE)]

\* cancel_order step 4: bitmap and best-price cache after the level emptied
CancelCleanup(bk, location) ==
    IF location.is_bid
    THEN LET b1 == [bk EXCEPT !.bid_bitmap = BitmapSet(@, location.price_idx, FALSE)]
         IN  IF b1.best_bid_idx = Some(location.price_idx)
             THEN [b1 EXCEPT !.best_bid_idx = find_best_bid(b1)]
             ELSE b1
    ELSE LET b1 == [bk EXCEPT !.ask_bitmap = BitmapSet(@, location.price_idx, FALSE)]
         IN  IF b1.best_ask_idx = Some(location.price_idx)
             THEN [b1 EXCEPT !.best_ask_idx = find_best_ask(b1)]
             ELSE b1

\* steps 4 and 5 of cancel_order without the removal from order_locations
CancelFinishKeepsLocation(bk, order_id, location, queue, found) ==
    IF ~found
    THEN [bk |-> bk, result |-> "not found in queue"]
    ELSE [bk |-> IF RbIsEmpty(queue) THEN CancelCleanup(bk, location) ELSE bk,
          result |-> "Ok"]

\* steps 4 and 5 of cancel_order with the cleanup of step 4 done whether or
\* not the level emptied
CancelFinishAlwaysCleans(bk, order_id, location, queue, found) ==
    IF ~found
    THEN [bk |-> bk, result |-> "not found in queue"]
    ELSE [bk |-> [CancelCleanup(bk, location)
                     EXCEPT !.order_locations = MapRemove(@, order_id)],
          result |-> "Ok"]

\* cancel_order steps 4 and 5, with the rebuilt queue stored in its slot
CancelFinish(bk, order_id, location, queue, found) ==
    IF ~found
    THEN [bk |-> bk, result |-> "not found in queue"]
    ELSE [bk |-> IF RbIsEmpty(queue)
                 THEN [CancelCleanup(bk, location)
                          EXCEPT !.order_locations = MapRemove(@, order_id)]
                 ELSE [bk EXCEPT !.order_locations = MapRemove(@, order_id)],
          result |-> "Ok"]

\* cancel_order step 3 after the drain d: the other orders are put back
CancelRebuild(bk, order_id, location, d) ==
    CancelFinish(
        IF location.is_bid
        THEN [bk EXCEPT !.bid_levels[location.price_idx] =
                            Some(CancelRefill(d.queue, d.temp_orders))]
        ELSE [bk EXCEPT !.ask_levels[location.price_idx] =
                            Some(CancelRefill(d.queue, d.temp_orders))],
        order_id, location, CancelRefill(d.queue, d.temp_orders), d.found)

\* cancel_order step 2: the level slot of the order's location
CancelSlot(bk, location) ==
    IF location.is_bid THEN bk.bid_levels[location.price_idx]
    ELSE bk.ask_levels[location.price_idx]

\* OrderBook::cancel_order for TickBasedOrderBook: [bk, result]
cancel_order(bk, order_id) ==
    IF order_id \notin DOMAIN bk.order_locations
    THEN [bk |-> bk, result |-> "not found"]
    ELSE IF CancelSlot(bk, bk.order_locations[order_id]) = None
    THEN [bk |-> bk, result |-> "Price level not found"]
    ELSE CancelRebuild(bk, order_id, bk.order_locations[order_id],
             CancelDrain(Unwrap(CancelSlot(bk, bk.order_locations[order_id])),
                         order_id, << >>, FALSE))

(* ------------------------------------------------------------------ *)
(* State machine: one book, driven by match_order and cancel_order     *)
(* ------------------------------------------------------------------ *)

VARIABLES
    bid_levels,       \* TickBasedOrderBook.bid_levels
    ask_levels,       \* TickBasedOrderBook.ask_levels
    bid_bitmap,       \* TickBasedOrderBook.bid_bitmap
    ask_bitmap,       \* TickBasedOrderBook.ask_bitmap
    best_bid_idx,     \* TickBasedOrderBook.best_bid_idx
    best_ask_idx,     \* TickBasedOrderBook.best_ask_idx
    next_order_id,    \* TickBasedOrderBook.next_order_id
    order_locations,  \* TickBasedOrderBook.order_locations
    queue_capacity,   \* TickBasedOrderBook.spec.queue_capacity
    aborted,          \* TRUE once a call has panicked
    call,             \* the last call: its operation and arguments
    ret,              \* what the last call returned
    cancelled_ok,     \* ids for which cancel_order has returned Ok
    bitmap,           \* a FastBitmap driven on its own
    bitmap_call,      \* the last call on bitmap
    bitmap_ret,       \* what the last call on bitmap returned
    ring,             \* a RingBuffer driven on its own
    ring_fifo,        \* the values pushed to ring and not yet removed, oldest first
    ring_call,        \* the last call on ring
    ring_ret,         \* what the last call on ring returned
    hash_of,          \* DefaultHasher: the hash of every symbol
    queues,           \* PartitionedService.partitions: the channel of every partition
    producers,        \* the threads that submit orders to the service
    workers,          \* the PartitionWorker of every partition
    processed,        \* per partition, the process_order calls and their results
    wall_clock,       \* SystemTime::now() in nanoseconds since the epoch
    timestamp_cache,  \* TIMESTAMP_CACHE
    ts_threads,       \* the threads that use the timestamp module
    pool_symbols,     \* SymbolPool.symbols: the Arc<str> interned for a string
    pool_lock,        \* the RwLock around SymbolPool.symbols
    pool_next_arc,    \* the heap: the next Arc<str> allocation
    pool_threads,     \* the threads that use the pool
    pool_handed,      \* per string, the Arc<str> handles intern has returned
    validator_config, \* OrderValidator.config
    validation_call,  \* the request of the last validate call
    validation_ret,   \* what the last validate call returned
    execute_call,     \* the request of the last MatchOrderUseCase::execute call
    execute_ret,      \* what the last MatchOrderUseCase::execute call returned
    engine_commands,  \* the commands sent to the MatchingService, not yet received
    engine_outputs,   \* what output_sender has sent, oldest first
    next_trade_id,    \* MatchingService.next_trade_id
    output_open,      \* the receiver of the output channel has not been dropped
    commands_sent,    \* the number of commands sent so far
    commands_done,    \* the number of commands the service has processed
    cancel_commands,  \* the CancelOrder commands processed for a resting order
    dispatcher        \* a PartitionedService built from any configuration

bookVars == <<bid_levels, ask_levels, bid_bitmap, ask_bitmap, best_bid_idx,
              best_ask_idx, next_order_id, order_locations, queue_capacity>>
bookSpecVars == <<bid_levels, ask_levels, bid_bitmap, ask_bitmap, best_bid_idx,
                  best_ask_idx, next_order_id, order_locations, queue_capacity,
                  aborted, call, ret, cancelled_ok>>
bitmapVars == <<bitmap, bitmap_call, bitmap_ret>>
ringVars == <<ring, ring_fifo, ring_call, ring_ret>>
serviceVars == <<hash_of, queues, producers, workers, processed>>
coreVars == <<bookSpecVars, bitmapVars, ringVars, serviceVars>>
timestampVars == <<wall_clock, timestamp_cache, ts_threads>>
\* the variables of the machines other than the book, the bitmap, the ring
\* and the partitioned service
poolVars == <<pool_symbols, pool_lock, pool_next_arc, pool_threads,
              pool_handed>>
validationVars == <<validator_config, validation_call, validation_ret>>
useCaseVars == <<execute_call, execute_ret>>
engineVars == <<engine_commands, engine_outputs, next_trade_id, output_open,
                commands_sent, commands_done, cancel_commands>>
dispatcherVars == <<dispatcher>>
moreVars == <<timestampVars, poolVars, validationVars, useCaseVars, engineVars,
              dispatcherVars>>
\* the variables a step of the timestamp module, of the pool, of the
\* validator leaves alone
notTimestampVars == <<coreVars, poolVars, validationVars, useCaseVars,
                      engineVars, dispatcherVars>>
notPoolVars == <<coreVars, timestampVars, validationVars, useCaseVars,
                 engineVars, dispatcherVars>>
notValidationVars == <<coreVars, timestampVars, poolVars, useCaseVars,
                       engineVars, dispatcherVars>>
\* the variables a step of the use case leaves alone, besides those of the
\* book
notUseCaseVars == <<bitmapVars, ringVars, serviceVars, timestampVars, poolVars,
                    validation_call, validation_ret, engineVars,
                    dispatcherVars>>
\* the variables a step of the matching service leaves alone, besides those
\* of the book
notEngineVars == <<bitmapVars, ringVars, serviceVars, timestampVars, poolVars,
                   validationVars, useCaseVars, dispatcherVars>>
\* the variables a step of the dispatcher leaves alone
notDispatcherVars == <<coreVars, timestampVars, poolVars, validationVars,
                       useCaseVars, engineVars>>
vars == <<bid_levels, ask_levels, bid_bitmap, ask_bitmap, best_bid_idx,
          best_ask_idx, next_order_id, order_locations, queue_capacity,
          aborted, call, ret, cancelled_ok,
          bitmap, bitmap_call, bitmap_ret,
          ring, ring_fifo, ring_call, ring_ret,
          hash_of, queues, producers, workers, processed,
          wall_clock, timestamp_cache, ts_threads,
          pool_symbols, pool_lock, pool_next_arc, pool_threads, pool_handed,
          validator_config, validation_call, validation_ret,
          execute_call, execute_ret,
          engine_commands, engine_outputs, next_trade_id, output_open,
          commands_sent, commands_done, cancel_commands, dispatcher>>

\* the book as one record
Book ==
    [bid_levels |-> bid_levels, ask_levels |-> ask_levels,
     bid_bitmap |-> bid_bitmap, ask_bitmap |-> ask_bitmap,
     best_bid_idx |-> best_bid_idx, best_ask_idx |-> best_ask_idx,
     next_order_id |-> next_order_id, order_locations |-> order_locations,
     queue_capacity |-> queue_capacity]

SetBook(bk) ==
    /\ bid_levels' = bk.bid_levels
    /\ ask_levels' = bk.ask_levels
    /\ bid_bitmap' = bk.bid_bitmap
    /\ ask_bitmap' = bk.ask_bitmap
    /\ best_bid_idx' = bk.best_bid_idx
    /\ best_ask_idx' = bk.best_ask_idx
    /\ next_order_id' = bk.next_order_id
    /\ order_locations' = bk.order_locations
    /\ queue_capacity' = bk.queue_capacity

NoRequest == [user_id |-> 0, order_type |-> "None", price |-> 0, quantity |-> 0]

\* the components that a specification does not drive stay as they are here
BitmapIdle ==
    /\ bitmap = BitmapNew(0)
    /\ bitmap_call = [op |-> "none", index |-> 0, value |-> FALSE]
    /\ bitmap_ret = [value |-> None, panicked |-> FALSE]
RingIdle ==
    /\ ring = RbWithCapacity(1)
    /\ ring_fifo = << >>
    /\ ring_call = [op |-> "none", value |-> Uninit]
    /\ ring_ret = [ok |-> TRUE, values |-> << >>]
ServiceIdle ==
    /\ hash_of = << >>
    /\ queues = << >>
    /\ producers = << >>
    /\ workers = << >>
    /\ processed = << >>
TimestampIdle ==
    /\ wall_clock = 0
    /\ timestamp_cache = 0
    /\ ts_threads = << >>
\* the machines other than the book, the bitmap, the ring and the
\* partitioned service are not used
PoolIdle ==
    /\ pool_symbols = << >>
    /\ pool_lock = << >>
    /\ pool_next_arc = 0
    /\ pool_threads = << >>
    /\ pool_handed = << >>
ValidationIdle ==
    /\ validator_config = << >>
    /\ validation_call = << >>
    /\ validation_ret = "none"
UseCaseIdle ==
    /\ execute_call = << >>
    /\ execute_ret = << >>
EngineIdle ==
    /\ engine_commands = << >>
    /\ engine_outputs = << >>
    /\ next_trade_id = 0
    /\ output_open = FALSE
    /\ commands_sent = 0
    /\ commands_done = 0
    /\ cancel_commands = {}
DispatcherIdle == dispatcher = << >>
MoreIdle ==
    /\ TimestampIdle /\ PoolIdle /\ ValidationIdle /\ UseCaseIdle
    /\ EngineIdle /\ DispatcherIdle

\* the book bk, on which nothing has been called yet
BookStarts(bk) ==
    /\ bid_levels = bk.bid_levels
    /\ ask_levels = bk.ask_levels
    /\ bid_bitmap = bk.bid_bitmap
    /\ ask_bitmap = bk.ask_bitmap
    /\ best_bid_idx = bk.best_bid_idx
    /\ best_ask_idx = bk.best_ask_idx
    /\ next_order_id = bk.next_order_id
    /\ order_locations = bk.order_locations
    /\ queue_capacity = bk.queue_capacity
    /\ aborted = FALSE
    /\ call = [op |-> "new", request |-> NoRequest, order_id |-> 0]
    /\ ret = [trades |-> << >>, confirmation |-> None, result |-> "new"]
    /\ cancelled_ok = {}

\* a new book
BookInit == BookStarts(BookNew)

Init == BookInit /\ BitmapIdle /\ RingIdle /\ ServiceIdle /\ MoreIdle

Requests ==
    [user_id : Users, order_type : Sides, price : Prices, quantity : Quantities]

\* the book and the observation of the call after a match_order that ended with r
MatchOrderEnds(request, r) ==
    /\ SetBook(r.bk)
    /\ call' = [op |-> "match_order", request |-> request, order_id |-> 0]
    /\ ret' = [trades |-> r.trades, confirmation |-> r.confirmation,
               result |-> IF r.panicked THEN "panic" ELSE "returned"]
    /\ aborted' = r.panicked

\* one call of match_order that returns (in a build without overflow checks
\* every call returns)
MatchOrder ==
    /\ ~aborted
    /\ next_order_id <= MaxOrderId
    /\ \E request \in Requests :
         MatchOrderEnds(request, match_order(Book, request, FALSE))
    /\ UNCHANGED <<cancelled_ok, bitmapVars, ringVars, serviceVars, moreVars>>

\* a match_order that panics ends the call without a result
MatchOrderPanics(request, r) ==
    /\ r.panicked
    /\ MatchOrderEnds(request, r)

\* one call of match_order in a build with overflow checks that panics in
\* find_prev_one; the book is left as it was when the panic unwound
MatchOrderPanic ==
    /\ ~aborted
    /\ next_order_id <= MaxOrderId
    /\ \E request \in Requests :
         /\ request.order_type = "Sell"
         /\ MatchOrderPanics(request, match_order(Book, request, TRUE))
    /\ UNCHANGED <<cancelled_ok, bitmapVars, ringVars, serviceVars, moreVars>>

\* the book and the observation of the call after a cancel_order that returned r
CancelOrderEnds(order_id, r) ==
    /\ SetBook(r.bk)
    /\ call' = [op |-> "cancel_order", request |-> NoRequest,
                order_id |-> order_id]
    /\ ret' = [trades |-> << >>, confirmation |-> None, result |-> r.result]
    /\ cancelled_ok' = IF r.result = "Ok"
                       THEN cancelled_ok \cup {order_id}
                       ELSE cancelled_ok

\* one call of cancel_order
CancelOrder ==
    /\ ~aborted
    /\ \E order_id \in 1..(MaxOrderId + 1) :
         CancelOrderEnds(order_id, cancel_order(Book, order_id))
    /\ UNCHANGED <<aborted, bitmapVars, ringVars, serviceVars, moreVars>>

Next == MatchOrder \/ MatchOrderPanic \/ CancelOrder

Spec == Init /\ [][Next]_vars

(* ------------------------------------------------------------------ *)
(* State machine: a book with deeper level queues                      *)
(* ------------------------------------------------------------------ *)

\* The book of a contract whose level queues hold DeepQueueCapacity orders,
\* called with orders of one user at two prices, while next_order_id <=
\* MaxDeepOrderId: three orders can rest at one level and a fourth can sweep
\* them.
DeepQueueCapacity == 3
MaxDeepOrderId == 4

DeepRequests ==
    [user_id : {1}, order_type : Sides,
     price : {MinPrice, MinPrice + 63 * TickSize}, quantity : 0..MaxQty]

\* TickBasedOrderBook::new for a contract with queue_capacity
\* DeepQueueCapacity
DeepBookInit ==
    BookStarts([BookNew EXCEPT !.queue_capacity = DeepQueueCapacity])

\* one call of match_order (at these prices no call panics, whatever the
\* build)
DeepMatchOrder ==
    /\ ~aborted
    /\ next_order_id <= MaxDeepOrderId
    /\ \E request \in DeepRequests :
         MatchOrderEnds(request, match_order(Book, request, TRUE))
    /\ UNCHANGED <<cancelled_ok, bitmapVars, ringVars, serviceVars, moreVars>>

\* one call of cancel_order
DeepCancelOrder ==
    /\ ~aborted
    /\ \E order_id \in 1..MaxDeepOrderId :
         CancelOrderEnds(order_id, cancel_order(Book, order_id))
    /\ UNCHANGED <<aborted, bitmapVars, ringVars, serviceVars, moreVars>>

DeepNext == DeepMatchOrder \/ DeepCancelOrder

DeepSpecInit ==
    DeepBookInit /\ BitmapIdle /\ RingIdle /\ ServiceIdle /\ MoreIdle

DeepSpec == DeepSpecInit /\ [][DeepNext]_vars

(* ------------------------------------------------------------------ *)
(* State machine: one FastBitmap, driven by set and the four finders   *)
(* ------------------------------------------------------------------ *)

\* the longest bitmap: two whole words and a partial third one
MaxBitmapLen == 129
\* lengths of one word, of whole words, and with a partial last word
BitmapLens == {1, 64, 65, 70, 128, MaxBitmapLen}
\* set is called at the two ends of every word and at the last index
BitPositions(len) ==
    {i \in {0, 1, 63, 64, 127, 128, len - 1} : i >= 0 /\ i < len}

\* FastBitmap::new(len) for one of the lengths
BitmapInit ==
    /\ \E len \in BitmapLens : bitmap = BitmapNew(len)
    /\ bitmap_call = [op |-> "new", index |-> 0, value |-> FALSE]
    /\ bitmap_ret = [value |-> None, panicked |-> FALSE]

\* FastBitmap::set(index, value) with index < len
BitmapSetCall ==
    /\ ~bitmap_ret.panicked
    /\ \E index \in BitPositions(bitmap.len), value \in BOOLEAN :
         /\ bitmap' = BitmapSet(bitmap, index, value)
         /\ bitmap_call' = [op |-> "set", index |-> index, value |-> value]
    /\ bitmap_ret' = [value |-> None, panicked |-> FALSE]
    /\ UNCHANGED <<bookSpecVars, ringVars, serviceVars, moreVars>>

\* FastBitmap::find_first_one()
FindFirstOneCall ==
    /\ ~bitmap_ret.panicked
    /\ bitmap_call' = [op |-> "find_first_one", index |-> 0, value |-> FALSE]
    /\ bitmap_ret' = [value |-> find_first_one(bitmap), panicked |-> FALSE]
    /\ UNCHANGED <<bitmap, bookSpecVars, ringVars, serviceVars, moreVars>>

\* FastBitmap::find_last_one()
FindLastOneCall ==
    /\ ~bitmap_ret.panicked
    /\ bitmap_call' = [op |-> "find_last_one", index |-> 0, value |-> FALSE]
    /\ bitmap_ret' = [value |-> find_last_one(bitmap), panicked |-> FALSE]
    /\ UNCHANGED <<bitmap, bookSpecVars, ringVars, serviceVars, moreVars>>

\* FastBitmap::find_next_one(start) with start in [0, len)
FindNextOneCall ==
    /\ ~bitmap_ret.panicked
    /\ \E start \in 0..(bitmap.len - 1) :
         /\ bitmap_call' = [op |-> "find_next_one", index |-> start,
                            value |-> FALSE]
         /\ bitmap_ret' = [value |-> find_next_one(bitmap, start),
                           panicked |-> FALSE]
    /\ UNCHANGED <<bitmap, bookSpecVars, ringVars, serviceVars, moreVars>>

\* FastBitmap::find_prev_one(start) with start in [0, len), as it returns
\* in a build without overflow checks (the shift amount wraps)
FindPrevOneCall ==
    /\ ~bitmap_ret.panicked
    /\ \E start \in 0..(bitmap.len - 1) :
         /\ bitmap_call' = [op |-> "find_prev_one", index |-> start,
                            value |-> FALSE]
         /\ bitmap_ret' = [value |-> find_prev_one(bitmap, start),
                           panicked |-> FALSE]
    /\ UNCHANGED <<bitmap, bookSpecVars, ringVars, serviceVars, moreVars>>

\* FastBitmap::find_prev_one(start) in a build with overflow checks, for a
\* start at which `1u64 << (start_bit + 1)` shifts by 64: the call panics
FindPrevOnePanic ==
    /\ ~bitmap_ret.panicked
    /\ \E start \in 0..(bitmap.len - 1) :
         /\ PrevShiftOverflows(start)
         /\ bitmap_call' = [op |-> "find_prev_one", index |-> start,
                            value |-> FALSE]
    /\ bitmap_ret' = [value |-> None, panicked |-> TRUE]
    /\ UNCHANGED <<bitmap, bookSpecVars, ringVars, serviceVars, moreVars>>

BitmapNext ==
    \/ BitmapSetCall
    \/ FindFirstOneCall
    \/ FindLastOneCall
    \/ FindNextOneCall
    \/ FindPrevOneCall
    \/ FindPrevOnePanic

BitmapSpecInit == BookInit /\ BitmapInit /\ RingIdle /\ ServiceIdle /\ MoreIdle

BitmapSpec == BitmapSpecInit /\ [][BitmapNext]_vars

(* ------------------------------------------------------------------ *)
(* State machine: one RingBuffer, driven by push, pop, front, clear    *)
(* and drain                                                           *)
(* ------------------------------------------------------------------ *)

\* capacities 1..MaxRingCapacity, values with order ids 1..MaxRingValue
MaxRingCapacity == 3
MaxRingValue == 2
\* the values pushed: order nodes told apart by their order id
RingValues == {[Uninit EXCEPT !.order_id = v, !.quantity = 1] : v \in 1..MaxRingValue}

\* RingBuffer::with_capacity(capacity) for a capacity > 0
RingInit ==
    /\ \E capacity \in 1..MaxRingCapacity : ring = RbWithCapacity(capacity)
    /\ ring_fifo = << >>
    /\ ring_call = [op |-> "with_capacity", value |-> Uninit]
    /\ ring_ret = [ok |-> TRUE, values |-> << >>]

\* push(value): Ok(()) or Err(value)
RingPush ==
    /\ \E value \in RingValues :
         /\ ring' = RbPush(ring, value).rb
         /\ ring_call' = [op |-> "push", value |-> value]
         /\ ring_ret' = [ok |-> RbPush(ring, value).ok,
                         values |-> IF RbPush(ring, value).ok THEN << >>
                                    ELSE <<value>>]
         /\ ring_fifo' = IF Len(ring_fifo) < ring.capacity
                         THEN Append(ring_fifo, value) ELSE ring_fifo
    /\ UNCHANGED <<bookSpecVars, bitmapVars, serviceVars, moreVars>>

\* pop(): Some(value) or None
RingPop ==
    /\ ring' = RbPop(ring).rb
    /\ ring_call' = [op |-> "pop", value |-> Uninit]
    /\ ring_ret' = [ok |-> TRUE, values |-> RbPop(ring).value]
    /\ ring_fifo' = IF ring_fifo = << >> THEN << >> ELSE Tail(ring_fifo)
    /\ UNCHANGED <<bookSpecVars, bitmapVars, serviceVars, moreVars>>

\* front(): Some(&value) or None
RingFront ==
    /\ ring_call' = [op |-> "front", value |-> Uninit]
    /\ ring_ret' = [ok |-> TRUE, values |-> RbFront(ring)]
    /\ UNCHANGED <<ring, ring_fifo, bookSpecVars, bitmapVars, serviceVars, moreVars>>

\* clear()
RingClear ==
    /\ ring' = RbClear(ring)
    /\ ring_call' = [op |-> "clear", value |-> Uninit]
    /\ ring_ret' = [ok |-> TRUE, values |-> << >>]
    /\ ring_fifo' = << >>
    /\ UNCHANGED <<bookSpecVars, bitmapVars, serviceVars, moreVars>>

\* drain(), the iterator consumed to its end
RingDrain ==
    /\ ring' = RbDrain(ring, << >>).rb
    /\ ring_call' = [op |-> "drain", value |-> Uninit]
    /\ ring_ret' = [ok |-> TRUE, values |-> RbDrain(ring, << >>).values]
    /\ ring_fifo' = << >>
    /\ UNCHANGED <<bookSpecVars, bitmapVars, serviceVars, moreVars>>

RingNext == RingPush \/ RingPop \/ RingFront \/ RingClear \/ RingDrain

RingSpecInit == BookInit /\ BitmapIdle /\ RingInit /\ ServiceIdle /\ MoreIdle

RingSpec == RingSpecInit /\ [][RingNext]_vars

(* ------------------------------------------------------------------ *)
(* State machine: PartitionedService, its producers and its workers    *)
(* (src/src/application/services/partitioned_service.rs)               *)
(* ------------------------------------------------------------------ *)

\* PartitionConfig: partition_count, queue_capacity, batch_size
PartitionCount == 2
ChannelCapacity == 2
BatchSize == 2
\* producer threads 1..MaxProducer, submitting at most MaxSubmit orders in all
MaxProducer == 2
MaxSubmit == 3
\* submit_order_batch is called with at most MaxBatchLen requests
MaxBatchLen == 2
\* DefaultHasher::finish yields a value in 0..MaxHash
MaxHash == 1

ServiceSymbols == {"BTC/USD", "ETH/USD"}
Partitions == 0..(PartitionCount - 1)
Producers == 1..MaxProducer

\* routing by load: partition 0 when its queue is shorter than the queue of
\* the partition of the symbol's hash
route_to_partition_ByLoad(symbol) ==
    IF Len(queues[0]) < Len(queues[hash_of[symbol] % PartitionCount])
    THEN 0 ELSE hash_of[symbol] % PartitionCount

\* PartitionedService::route_to_partition
route_to_partition(symbol) == hash_of[symbol] % PartitionCount

\* a try_recv that takes the newest message instead of the oldest
ChannelTryRecvNewest(q) == [value |-> q[Len(q)], q |-> SubSeq(q, 1, Len(q) - 1)]
\* crossbeam bounded channel: what try_iter().next() receives and leaves
ChannelTryRecv(q) == [value |-> Head(q), q |-> Tail(q)]

(* The order book of a worker: crate::orderbook::OrderBook (orderbook.rs). *)
(* A price level's doubly linked list of nodes in the `orders` arena is    *)
(* the sequence of its nodes from head to tail; a price that is no key of  *)
(* the BTreeMap has the empty sequence. The arena indices, the free list   *)
(* and order_id_to_index (which nothing reads back) are not kept. A node   *)
(* also records the symbol of the request that created it, and a trade     *)
(* the symbol of its resting order: the code keeps neither, they are       *)
(* history the properties read.                                            *)

\* the price and quantity of the requests submitted (those of the unit tests)
ServicePrices == {50000}
ServiceQuantities == {10}

\* OrderBook::new
LegacyBookNew ==
    [bids |-> [price \in ServicePrices |-> << >>],
     asks |-> [price \in ServicePrices |-> << >>],
     next_order_id |-> 1]

\* the TradeNotification pushed by OrderBook::match_order
LegacyTrade(request, presumed_id, counter_order, trade_quantity) ==
    [trade_id |-> 0, symbol |-> request.symbol,
     matched_price |-> counter_order.price,
     matched_quantity |-> trade_quantity,
     buyer_user_id |-> IF request.order_type = "Buy" THEN request.user_id
                       ELSE counter_order.user_id,
     buyer_order_id |-> IF request.order_type = "Buy" THEN presumed_id
                        ELSE counter_order.order_id,
     seller_user_id |-> IF request.order_type = "Buy" THEN counter_order.user_id
                        ELSE request.user_id,
     seller_order_id |-> IF request.order_type = "Buy" THEN counter_order.order_id
                         ELSE presumed_id,
     timestamp |-> 0,
     counter_symbol |-> counter_order.symbol]

RECURSIVE LegacyLevelLoop(_, _, _, _, _, _)
\* OrderBook::match_order: `while let Some(node_idx) = current_node_idx`
\* from the k-th node of the level on
LegacyLevelLoop(level, k, remaining_quantity, trades, request, presumed_id) ==
    IF k > Len(level)
    THEN [level |-> level, remaining_quantity |-> remaining_quantity,
          trades |-> trades]
    ELSE IF remaining_quantity - Min(remaining_quantity, level[k].quantity) = 0
    THEN [level |-> [level EXCEPT ![k].quantity =
                        @ - Min(remaining_quantity, level[k].quantity)],
          remaining_quantity |-> 0,
          trades |-> Append(trades,
                        LegacyTrade(request, presumed_id, level[k],
                                    Min(remaining_quantity, level[k].quantity)))]
    ELSE LegacyLevelLoop(
             [level EXCEPT ![k].quantity =
                 @ - Min(remaining_quantity, level[k].quantity)],
             k + 1,
             remaining_quantity - Min(remaining_quantity, level[k].quantity),
             Append(trades,
                    LegacyTrade(request, presumed_id, level[k],
                                Min(remaining_quantity, level[k].quantity))),
             request, presumed_id)

\* OrderBook::match_order: a level after remove_order of its filled nodes
\* and the removal of the prices in prices_to_remove. The price is removed,
\* with every node still linked at it, when the head node was filled.
LegacyLevelCleanup(level) ==
    IF level # << >> /\ level[1].quantity = 0 THEN << >> ELSE level

\* the next key of the iteration over the opposite side: asks.iter() for a
\* Buy, bids.iter().rev() for a Sell
LegacyNextPrice(order_type, prices) ==
    IF order_type = "Buy" THEN SetMin(prices) ELSE SetMax(prices)

\* OrderBook::match_order: after the level loop r of one price
LegacySweepNext(levels, price, r) ==
    [levels |-> [levels EXCEPT ![price] = LegacyLevelCleanup(r.level)],
     remaining_quantity |-> r.remaining_quantity,
     trades |-> r.trades]

RECURSIVE LegacySweep(_, _, _, _)
\* OrderBook::match_order: the loop over the price levels of the opposite
\* side, m being the levels, remaining quantity and trades so far
LegacySweep(m, prices, request, presumed_id) ==
    IF prices = {} THEN m
    ELSE IF m.remaining_quantity = 0 THEN m
    ELSE IF request.order_type = "Buy"
            /\ request.price < LegacyNextPrice("Buy", prices) THEN m
    ELSE IF request.order_type = "Sell"
            /\ request.price > LegacyNextPrice("Sell", prices) THEN m
    ELSE LegacySweep(
             LegacySweepNext(m.levels,
                 LegacyNextPrice(request.order_type, prices),
                 LegacyLevelLoop(
                     m.levels[LegacyNextPrice(request.order_type, prices)],
                     1, m.remaining_quantity, m.trades, request, presumed_id)),
             prices \ {LegacyNextPrice(request.order_type, prices)},
             request, presumed_id)

\* OrderBook::add_order: the node appended to the tail of its price level
LegacyNode(request, remaining_quantity, order_id) ==
    [user_id |-> request.user_id, order_id |-> order_id,
     price |-> request.price, quantity |-> remaining_quantity,
     symbol |-> request.symbol]

\* OrderBook::match_order after the sweep m of the opposite side:
\* [book, trades, confirmation]
LegacyMatchFinish(book, request, m) ==
    [book |->
        [bids |-> IF request.order_type = "Sell" THEN m.levels
                  ELSE IF m.remaining_quantity > 0
                  THEN [book.bids EXCEPT ![request.price] =
                          Append(@, LegacyNode(request, m.remaining_quantity,
                                               book.next_order_id))]
                  ELSE book.bids,
         asks |-> IF request.order_type = "Buy" THEN m.levels
                  ELSE IF m.remaining_quantity > 0
                  THEN [book.asks EXCEPT ![request.price] =
                          Append(@, LegacyNode(request, m.remaining_quantity,
                                               book.next_order_id))]
                  ELSE book.asks,
         next_order_id |-> IF m.remaining_quantity > 0
                           THEN book.next_order_id + 1
                           ELSE book.next_order_id],
     trades |-> m.trades,
     confirmation |-> IF m.remaining_quantity > 0
                      THEN Some([order_id |-> book.next_order_id,
                                 user_id |-> request.user_id])
                      ELSE None]

\* OrderBook::match_order: [book, trades, confirmation]
LegacyMatchOrder(book, request) ==
    LegacyMatchFinish(book, request,
        LegacySweep(
            [levels |-> IF request.order_type = "Buy" THEN book.asks
                        ELSE book.bids,
             remaining_quantity |-> request.quantity,
             trades |-> << >>],
            ServicePrices, request, book.next_order_id))

RECURSIVE OfPartition(_, _)
\* submit_order_batch: `partitioned[partition_id]` after the grouping loop
OfPartition(requests, partition_id) ==
    IF requests = << >> THEN << >>
    ELSE IF route_to_partition(Head(requests).symbol) = partition_id
         THEN <<Head(requests)>> \o OfPartition(Tail(requests), partition_id)
         ELSE OfPartition(Tail(requests), partition_id)

RECURSIVE SendOrderNewestFirst(_, _)
\* a send loop that sends the orders of every partition newest first
SendOrderNewestFirst(requests, partition_id) ==
    IF partition_id >= PartitionCount THEN << >>
    ELSE [k \in 1..Len(OfPartition(requests, partition_id)) |->
             OfPartition(requests, partition_id)
                 [Len(OfPartition(requests, partition_id)) + 1 - k]]
           \o SendOrderNewestFirst(requests, partition_id + 1)

RECURSIVE SendOrder(_, _)
\* submit_order_batch: the requests in the order the send loop sends them,
\* partition by partition from partition_id on
SendOrder(requests, partition_id) ==
    IF partition_id >= PartitionCount THEN << >>
    ELSE OfPartition(requests, partition_id)
           \o SendOrder(requests, partition_id + 1)

\* crossbeam bounded channel: the queue after a send of a request into it
\* with every request dropped that finds the channel non-empty
ChannelSendDropsBehind(q, order_req) ==
    IF q = << >> THEN <<order_req>> ELSE q
\* crossbeam bounded channel: the queue after Sender::send has put a request
\* into it
ChannelSend(q, order_req) == Append(q, order_req)

\* the response of a request with the trades left out
MatchedNoTrades(r) == [trades |-> << >>, confirmation |-> r.confirmation]
\* process_order: OrderResponse::Matched { trades, confirmation } of the
\* result r of match_order
Matched(r) == [trades |-> r.trades, confirmation |-> r.confirmation]

\* PartitionedService::new: one empty bounded channel and one worker with
\* an empty order book per partition; the hasher is a fixed function of
\* the symbol
ServiceInit ==
    /\ hash_of \in [ServiceSymbols -> 0..MaxHash]
    /\ queues = [p \in Partitions |-> << >>]
    /\ producers = [pr \in Producers |->
                      [call |-> "none", pending |-> << >>, blocked |-> FALSE,
                       submitted |-> 0, result |-> "none", reply |-> << >>,
                       response |-> None]]
    /\ workers = [p \in Partitions |->
                    [pc |-> "collect", batch |-> << >>, queue_depth |-> 0,
                     orders_processed |-> 0, trades_generated |-> 0,
                     idle |-> "none", orderbook |-> LegacyBookNew]]
    /\ processed = [p \in Partitions |-> << >>]

RECURSIVE SubmittedUpTo(_)
SubmittedUpTo(pr) ==
    IF pr = 0 THEN 0 ELSE producers[pr].submitted + SubmittedUpTo(pr - 1)
\* the number of requests submitted so far
Submitted == SubmittedUpTo(MaxProducer)

\* the NewOrderRequest fields of the n-th request of a producer: a producer
\* submits buys and sells in turn
ServiceRequest(n, symbol, price, quantity) ==
    [symbol |-> symbol, order_type |-> IF n % 2 = 1 THEN "Buy" ELSE "Sell",
     price |-> price, quantity |-> quantity]

\* the n-th OrderRequest a producer submits: the request (the producer is
\* its user), whether it carries a response_tx, and which call of which
\* producer made it
OrderOf(pr, n, request, sync) ==
    [producer |-> pr, seq |-> n, sync |-> sync, user_id |-> pr,
     symbol |-> request.symbol, order_type |-> request.order_type,
     price |-> request.price, quantity |-> request.quantity]

\* the producer is in no call: none made yet, or the last one has returned
ProducerIdle(pr) ==
    /\ producers[pr].pending = << >>
    /\ producers[pr].call = "none" \/ producers[pr].result # "none"

\* submit_order is called: the request is routed and its send begins
SubmitOrder(pr) ==
    /\ ProducerIdle(pr)
    /\ Submitted < MaxSubmit
    /\ \E symbol \in ServiceSymbols, price \in ServicePrices,
          quantity \in ServiceQuantities :
         producers' = [producers EXCEPT ![pr] =
            [call |-> "submit_order",
             pending |-> <<OrderOf(pr, producers[pr].submitted + 1,
                              ServiceRequest(producers[pr].submitted + 1,
                                             symbol, price, quantity),
                              FALSE)>>,
             submitted |-> producers[pr].submitted + 1,
             blocked |-> FALSE, result |-> "none", reply |-> << >>,
             response |-> None]]
    /\ UNCHANGED <<hash_of, queues, workers, processed>>
    /\ UNCHANGED <<bookSpecVars, bitmapVars, ringVars, moreVars>>

\* submit_order_sync is called: the response channel is created, the
\* request is routed and its send begins
SubmitOrderSync(pr) ==
    /\ ProducerIdle(pr)
    /\ Submitted < MaxSubmit
    /\ \E symbol \in ServiceSymbols, price \in ServicePrices,
          quantity \in ServiceQuantities :
         producers' = [producers EXCEPT ![pr] =
            [call |-> "submit_order_sync",
             pending |-> <<OrderOf(pr, producers[pr].submitted + 1,
                              ServiceRequest(producers[pr].submitted + 1,
                                             symbol, price, quantity),
                              TRUE)>>,
             submitted |-> producers[pr].submitted + 1,
             blocked |-> FALSE, result |-> "none", reply |-> << >>,
             response |-> None]]
    /\ UNCHANGED <<hash_of, queues, workers, processed>>
    /\ UNCHANGED <<bookSpecVars, bitmapVars, ringVars, moreVars>>

\* submit_order_batch is called: the requests are grouped by partition and
\* the send loop begins (an empty vector returns Ok at once)
SubmitOrderBatch(pr) ==
    /\ ProducerIdle(pr)
    /\ \E n \in 0..MaxBatchLen :
         /\ Submitted + n <= MaxSubmit
         /\ \E symbols \in [1..n -> ServiceSymbols],
               prices \in [1..n -> ServicePrices],
               quantities \in [1..n -> ServiceQuantities] :
              producers' = [producers EXCEPT ![pr] =
                 [call |-> "submit_order_batch",
                  pending |-> SendOrder(
                      [k \in 1..n |->
                          OrderOf(pr, producers[pr].submitted + k,
                              ServiceRequest(producers[pr].submitted + k,
                                  symbols[k], prices[k], quantities[k]),
                              FALSE)],
                      0),
                  submitted |-> producers[pr].submitted + n,
                  blocked |-> FALSE,
                  result |-> IF n = 0 THEN "Ok" ELSE "none",
                  reply |-> << >>, response |-> None]]
    /\ UNCHANGED <<hash_of, queues, workers, processed>>
    /\ UNCHANGED <<bookSpecVars, bitmapVars, ringVars, moreVars>>

\* Sender::send of the next request of the call finds the partition's
\* channel full: the calling thread blocks until there is room
ProducerBlocks(pr) ==
    /\ producers[pr].pending # << >>
    /\ ~producers[pr].blocked
    /\ Len(queues[route_to_partition(Head(producers[pr].pending).symbol)])
          = ChannelCapacity
    /\ producers' = [producers EXCEPT ![pr].blocked = TRUE]
    /\ UNCHANGED <<hash_of, queues, workers, processed>>
    /\ UNCHANGED <<bookSpecVars, bitmapVars, ringVars, moreVars>>

\* Sender::send of the next request of the call puts it into the
\* partition's channel, which has room; after the last send submit_order
\* and submit_order_batch return Ok, submit_order_sync goes on to wait for
\* the response
ProducerSend(pr) ==
    /\ producers[pr].pending # << >>
    /\ Len(queues[route_to_partition(Head(producers[pr].pending).symbol)])
          < ChannelCapacity
    /\ queues' = [queues EXCEPT
                    ![route_to_partition(Head(producers[pr].pending).symbol)] =
                        ChannelSend(@, Head(producers[pr].pending))]
    /\ producers' = [producers EXCEPT
                       ![pr].pending = Tail(@),
                       ![pr].blocked = FALSE,
                       ![pr].result =
                          IF Len(producers[pr].pending) = 1
                             /\ producers[pr].call # "submit_order_sync"
                          THEN "Ok" ELSE "none"]
    /\ UNCHANGED <<hash_of, workers, processed>>
    /\ UNCHANGED <<bookSpecVars, bitmapVars, ringVars, moreVars>>

\* submit_order_sync: response_rx.recv() receives the response and the
\* call returns it
SyncReceive(pr) ==
    /\ producers[pr].call = "submit_order_sync"
    /\ producers[pr].pending = << >>
    /\ producers[pr].result = "none"
    /\ producers[pr].reply # << >>
    /\ producers' = [producers EXCEPT
                       ![pr].response = Some(Head(producers[pr].reply)),
                       ![pr].reply = Tail(@),
                       ![pr].result = "Ok"]
    /\ UNCHANGED <<hash_of, queues, workers, processed>>
    /\ UNCHANGED <<bookSpecVars, bitmapVars, ringVars, moreVars>>

\* PartitionWorker::run: try_iter().take(batch_size) receives one more request
WorkerTake(p) ==
    /\ workers[p].pc = "collect"
    /\ Len(workers[p].batch) < BatchSize
    /\ queues[p] # << >>
    /\ workers' = [workers EXCEPT
                     ![p].batch = Append(@, ChannelTryRecv(queues[p]).value)]
    /\ queues' = [queues EXCEPT ![p] = ChannelTryRecv(queues[p]).q]
    /\ UNCHANGED <<hash_of, producers, processed>>
    /\ UNCHANGED <<bookSpecVars, bitmapVars, ringVars, moreVars>>

\* PartitionWorker::run: the batch is collected (batch_size requests taken
\* or the channel found empty); an empty batch spins or yields and collects
\* again, a non-empty one is processed
WorkerCollected(p) ==
    /\ workers[p].pc = "collect"
    /\ Len(workers[p].batch) = BatchSize \/ queues[p] = << >>
    /\ workers' = [workers EXCEPT ![p] =
          IF workers[p].batch = << >>
          THEN [@ EXCEPT !.idle = IF workers[p].queue_depth > 0
                                  THEN "spin" ELSE "yield"]
          ELSE [@ EXCEPT !.pc = "process", !.idle = "none"]]
    /\ UNCHANGED <<hash_of, queues, producers, processed>>
    /\ UNCHANGED <<bookSpecVars, bitmapVars, ringVars, moreVars>>

\* PartitionWorker::process_order of the request order_req, r being the
\* result of match_order on the worker's order book: the book and the
\* statistics are updated and the response is sent on the request's
\* response_tx, if it has one. `processed` records the call and its result.
ProcessOrderResult(p, order_req, r) ==
    /\ workers' = [workers EXCEPT
                     ![p].batch = Tail(@),
                     ![p].orderbook = r.book,
                     ![p].orders_processed = @ + 1,
                     ![p].trades_generated = @ + Len(r.trades)]
    /\ producers' = IF order_req.sync
                    THEN [producers EXCEPT ![order_req.producer].reply =
                             Append(@, Matched(r))]
                    ELSE producers
    /\ processed' = [processed EXCEPT ![p] =
                        Append(@, [request |-> order_req,
                                   trades |-> r.trades,
                                   confirmation |-> r.confirmation])]

\* PartitionWorker::process_order for the next request of the batch
ProcessOrder(p) ==
    /\ workers[p].pc = "process"
    /\ workers[p].batch # << >>
    /\ ProcessOrderResult(p, Head(workers[p].batch),
           LegacyMatchOrder(workers[p].orderbook, Head(workers[p].batch)))
    /\ UNCHANGED <<hash_of, queues>>
    /\ UNCHANGED <<bookSpecVars, bitmapVars, ringVars, moreVars>>

\* a refresh that counts the batch just processed as still queued
WorkerRefreshCountsBatch(p) ==
    /\ workers[p].pc = "process"
    /\ workers[p].batch = << >>
    /\ workers' = [workers EXCEPT ![p].pc = "collect",
                                  ![p].queue_depth = Len(queues[p]) + 1]
    /\ UNCHANGED <<hash_of, queues, producers, processed>>
    /\ UNCHANGED <<bookSpecVars, bitmapVars, ringVars, moreVars>>

\* PartitionWorker::run: `self.stats.queue_depth = self.rx.len()` after the batch
WorkerRefresh(p) ==
    /\ workers[p].pc = "process"
    /\ workers[p].batch = << >>
    /\ workers' = [workers EXCEPT ![p].pc = "collect",
                                  ![p].queue_depth = Len(queues[p])]
    /\ UNCHANGED <<hash_of, queues, producers, processed>>
    /\ UNCHANGED <<bookSpecVars, bitmapVars, ringVars, moreVars>>

ServiceNext ==
    \/ \E pr \in Producers : SubmitOrder(pr)
    \/ \E pr \in Producers : SubmitOrderSync(pr)
    \/ \E pr \in Producers : SubmitOrderBatch(pr)
    \/ \E pr \in Producers : ProducerBlocks(pr)
    \/ \E pr \in Producers : ProducerSend(pr)
    \/ \E pr \in Producers : SyncReceive(pr)
    \/ \E p \in Partitions : WorkerTake(p)
    \/ \E p \in Partitions : WorkerCollected(p)
    \/ \E p \in Partitions : ProcessOrder(p)
    \/ \E p \in Partitions : WorkerRefresh(p)

ServiceSpecInit == BookInit /\ BitmapIdle /\ RingIdle /\ ServiceInit /\ MoreIdle

ServiceSpec == ServiceSpecInit /\ [][ServiceNext]_vars

\* a step of the worker thread of a partition
WorkerStep(p) ==
    WorkerTake(p) \/ WorkerCollected(p) \/ ProcessOrder(p) \/ WorkerRefresh(p)

\* the caller threads of the fairly scheduled service
FairProducers == {1}

\* the service used by one caller thread
ServiceFairNext ==
    \/ \E pr \in FairProducers : SubmitOrder(pr)
    \/ \E pr \in FairProducers : SubmitOrderSync(pr)
    \/ \E pr \in FairProducers : SubmitOrderBatch(pr)
    \/ \E pr \in FairProducers : ProducerBlocks(pr)
    \/ \E pr \in FairProducers : ProducerSend(pr)
    \/ \E pr \in FairProducers : SyncReceive(pr)
    \/ \E p \in Partitions : WorkerTake(p)
    \/ \E p \in Partitions : WorkerCollected(p)
    \/ \E p \in Partitions : ProcessOrder(p)
    \/ \E p \in Partitions : WorkerRefresh(p)

\* The service with its threads scheduled fairly: each worker thread, spawned
\* by PartitionedService::new into a loop that never ends, keeps taking
\* steps, and a thread inside a submit call completes its send once the
\* channel has room and its recv once the response is there.
ServiceFairSpec ==
    /\ ServiceSpecInit
    /\ [][ServiceFairNext]_vars
    /\ \A p \in Partitions : WF_vars(WorkerStep(p))
    /\ \A pr \in FairProducers : WF_vars(ProducerSend(pr))
    /\ \A pr \in FairProducers : WF_vars(SyncReceive(pr))

(* ------------------------------------------------------------------ *)
(* The cached timestamp (shared/timestamp.rs)                           *)
(* ------------------------------------------------------------------ *)

\* the threads that call the module, and how far the wall clock advances
MaxThread == 2
MaxClock == 2
Threads == 1..MaxThread

\* UPDATE_INTERVAL, 100 in the source: after this many calls answered from
\* the cache a thread reads the clock again
UPDATE_INTERVAL == 2

\* TIMESTAMP_CACHE is 0, every thread's UPDATE_COUNTER is 0 and no thread
\* is inside a call; `last` and `prev` are the last two values
\* get_fast_timestamp returned to the thread
TimestampInit ==
    /\ wall_clock = 0
    /\ timestamp_cache = 0
    /\ ts_threads = [t \in Threads |->
                       [pc |-> "idle", counter |-> 0, new_ts |-> 0,
                        prev |-> None, last |-> None]]

\* the wall clock advances
ClockAdvance ==
    /\ wall_clock < MaxClock
    /\ wall_clock' = wall_clock + 1
    /\ UNCHANGED <<timestamp_cache, ts_threads>>
    /\ UNCHANGED notTimestampVars

\* get_fast_timestamp below the update interval: the counter is incremented
\* and the cached value loaded and returned
GetFastCached(t) ==
    /\ ts_threads[t].pc = "idle"
    /\ ts_threads[t].counter < UPDATE_INTERVAL
    /\ ts_threads' = [ts_threads EXCEPT
                        ![t].counter = @ + 1,
                        ![t].prev = ts_threads[t].last,
                        ![t].last = Some(timestamp_cache)]
    /\ UNCHANGED <<wall_clock, timestamp_cache>>
    /\ UNCHANGED notTimestampVars

\* get_fast_timestamp at the update interval: SystemTime::now() is read
GetFastReadClock(t) ==
    /\ ts_threads[t].pc = "idle"
    /\ ts_threads[t].counter >= UPDATE_INTERVAL
    /\ ts_threads' = [ts_threads EXCEPT ![t].pc = "fast_store",
                                        ![t].new_ts = wall_clock]
    /\ UNCHANGED <<wall_clock, timestamp_cache>>
    /\ UNCHANGED notTimestampVars

\* get_fast_timestamp at the update interval: new_ts is stored into the
\* cache, the counter reset and new_ts returned
GetFastStore(t) ==
    /\ ts_threads[t].pc = "fast_store"
    /\ timestamp_cache' = ts_threads[t].new_ts
    /\ ts_threads' = [ts_threads EXCEPT
                        ![t].pc = "idle",
                        ![t].counter = 0,
                        ![t].prev = ts_threads[t].last,
                        ![t].last = Some(ts_threads[t].new_ts)]
    /\ UNCHANGED wall_clock
    /\ UNCHANGED notTimestampVars

\* force_update_timestamp: SystemTime::now() is read
ForceReadClock(t) ==
    /\ ts_threads[t].pc = "idle"
    /\ ts_threads' = [ts_threads EXCEPT ![t].pc = "force_store",
                                        ![t].new_ts = wall_clock]
    /\ UNCHANGED <<wall_clock, timestamp_cache>>
    /\ UNCHANGED notTimestampVars

\* force_update_timestamp: new_ts is stored into the cache and the calling
\* thread's counter reset
ForceStore(t) ==
    /\ ts_threads[t].pc = "force_store"
    /\ timestamp_cache' = ts_threads[t].new_ts
    /\ ts_threads' = [ts_threads EXCEPT ![t].pc = "idle", ![t].counter = 0]
    /\ UNCHANGED wall_clock
    /\ UNCHANGED notTimestampVars

TimestampNext ==
    \/ ClockAdvance
    \/ \E t \in Threads : GetFastCached(t)
    \/ \E t \in Threads : GetFastReadClock(t)
    \/ \E t \in Threads : GetFastStore(t)
    \/ \E t \in Threads : ForceReadClock(t)
    \/ \E t \in Threads : ForceStore(t)

TimestampSpecInit ==
    /\ BookInit /\ BitmapIdle /\ RingIdle /\ ServiceIdle
    /\ TimestampInit /\ PoolIdle /\ ValidationIdle /\ UseCaseIdle
    /\ EngineIdle /\ DispatcherIdle

TimestampSpec == TimestampSpecInit /\ [][TimestampNext]_vars

(* ------------------------------------------------------------------ *)
(* The symbol pool (symbol_pool.rs)                                     *)
(* ------------------------------------------------------------------ *)

\* An Arc<str> is the number of its heap allocation, so that two handles
\* are pointer-identical exactly when they are the same number.

MaxPoolThread == 2
MaxPreloadLen == 2
MaxArc == 4
PoolThreads == 1..MaxPoolThread
PoolStrings == {"BTC/USD", "ETH/USD"}

\* HashMap::insert: the entry of the string is set to the fresh Arc whether
\* or not the map has one
PoolInsert(symbols, symbol, fresh) == [symbols EXCEPT ![symbol] = Some(fresh)]
\* entry(symbol).or_insert_with(|| Arc::from(symbol)): the map afterwards
PoolEntryOrInsert(symbols, symbol, fresh) ==
    IF IsSome(symbols[symbol]) THEN symbols
    ELSE [symbols EXCEPT ![symbol] = Some(fresh)]

\* SymbolPool::new: an empty map, the lock free, no thread inside a call
PoolInit ==
    /\ pool_symbols = [symbol \in PoolStrings |-> None]
    /\ pool_lock = [readers |-> {}, writer |-> None]
    /\ pool_next_arc = 1
    /\ pool_threads = [t \in PoolThreads |->
                         [pc |-> "idle", symbol |-> "", todo |-> << >>]]
    /\ pool_handed = [symbol \in PoolStrings |-> {}]

\* intern(symbol) is called
InternCall(t) ==
    /\ pool_threads[t].pc = "idle"
    /\ \E symbol \in PoolStrings :
         pool_threads' = [pool_threads EXCEPT ![t].pc = "intern_read_lock",
                                              ![t].symbol = symbol]
    /\ UNCHANGED <<pool_symbols, pool_lock, pool_next_arc, pool_handed>>
    /\ UNCHANGED notPoolVars

\* intern: self.symbols.read() is granted, no thread holding the write lock
InternReadLock(t) ==
    /\ pool_threads[t].pc = "intern_read_lock"
    /\ pool_lock.writer = None
    /\ pool_lock' = [pool_lock EXCEPT !.readers = @ \cup {t}]
    /\ pool_threads' = [pool_threads EXCEPT ![t].pc = "intern_read"]
    /\ UNCHANGED <<pool_symbols, pool_next_arc, pool_handed>>
    /\ UNCHANGED notPoolVars

\* intern, fast path: the string is found, its Arc is cloned and returned
\* and the read guard dropped
InternHit(t) ==
    /\ pool_threads[t].pc = "intern_read"
    /\ IsSome(pool_symbols[pool_threads[t].symbol])
    /\ pool_handed' = [pool_handed EXCEPT ![pool_threads[t].symbol] =
                          @ \cup {Unwrap(pool_symbols[pool_threads[t].symbol])}]
    /\ pool_lock' = [pool_lock EXCEPT !.readers = @ \ {t}]
    /\ pool_threads' = [pool_threads EXCEPT ![t].pc = "idle"]
    /\ UNCHANGED <<pool_symbols, pool_next_arc>>
    /\ UNCHANGED notPoolVars

\* intern: the string is not found and the read guard is dropped
InternMiss(t) ==
    /\ pool_threads[t].pc = "intern_read"
    /\ ~IsSome(pool_symbols[pool_threads[t].symbol])
    /\ pool_lock' = [pool_lock EXCEPT !.readers = @ \ {t}]
    /\ pool_threads' = [pool_threads EXCEPT ![t].pc = "intern_write_lock"]
    /\ UNCHANGED <<pool_symbols, pool_next_arc, pool_handed>>
    /\ UNCHANGED notPoolVars

\* intern, slow path: self.symbols.write() is granted, no thread holding
\* the lock
InternWriteLock(t) ==
    /\ pool_threads[t].pc = "intern_write_lock"
    /\ pool_lock.writer = None
    /\ pool_lock.readers = {}
    /\ pool_lock' = [pool_lock EXCEPT !.writer = Some(t)]
    /\ pool_threads' = [pool_threads EXCEPT ![t].pc = "intern_write"]
    /\ UNCHANGED <<pool_symbols, pool_next_arc, pool_handed>>
    /\ UNCHANGED notPoolVars

\* the pool after entry(symbol).or_insert_with(..) has left the map as
\* `symbols`: a fresh Arc was allocated if the string had no entry
PoolInserted(symbol, symbols) ==
    /\ pool_symbols' = symbols
    /\ pool_next_arc' = IF IsSome(pool_symbols[symbol]) THEN pool_next_arc
                        ELSE pool_next_arc + 1

\* intern, slow path: entry(symbol).or_insert_with(..).clone() is returned
\* and the write guard dropped
InternInsert(t) ==
    /\ pool_threads[t].pc = "intern_write"
    /\ pool_next_arc <= MaxArc
    /\ PoolInserted(pool_threads[t].symbol,
           PoolEntryOrInsert(pool_symbols, pool_threads[t].symbol,
                             pool_next_arc))
    /\ pool_handed' = [pool_handed EXCEPT ![pool_threads[t].symbol] =
                          @ \cup {Unwrap(pool_symbols'[pool_threads[t].symbol])}]
    /\ pool_lock' = [pool_lock EXCEPT !.writer = None]
    /\ pool_threads' = [pool_threads EXCEPT ![t].pc = "idle"]
    /\ UNCHANGED notPoolVars

\* preload(symbols) is called
PreloadCall(t) ==
    /\ pool_threads[t].pc = "idle"
    /\ \E n \in 0..MaxPreloadLen : \E symbols \in [1..n -> PoolStrings] :
         pool_threads' = [pool_threads EXCEPT ![t].pc = "preload_write_lock",
                                              ![t].todo = symbols]
    /\ UNCHANGED <<pool_symbols, pool_lock, pool_next_arc, pool_handed>>
    /\ UNCHANGED notPoolVars

\* preload: self.symbols.write() is granted
PreloadWriteLock(t) ==
    /\ pool_threads[t].pc = "preload_write_lock"
    /\ pool_lock.writer = None
    /\ pool_lock.readers = {}
    /\ pool_lock' = [pool_lock EXCEPT !.writer = Some(t)]
    /\ pool_threads' = [pool_threads EXCEPT ![t].pc = "preload_write"]
    /\ UNCHANGED <<pool_symbols, pool_next_arc, pool_handed>>
    /\ UNCHANGED notPoolVars

\* preload: one turn of the loop, entry(symbol).or_insert_with(..)
PreloadInsert(t) ==
    /\ pool_threads[t].pc = "preload_write"
    /\ pool_threads[t].todo # << >>
    /\ pool_next_arc <= MaxArc
    /\ PoolInserted(Head(pool_threads[t].todo),
           PoolEntryOrInsert(pool_symbols, Head(pool_threads[t].todo),
                             pool_next_arc))
    /\ pool_threads' = [pool_threads EXCEPT ![t].todo = Tail(@)]
    /\ UNCHANGED <<pool_lock, pool_handed>>
    /\ UNCHANGED notPoolVars

\* preload: the loop is over, the write guard is dropped
PreloadReturn(t) ==
    /\ pool_threads[t].pc = "preload_write"
    /\ pool_threads[t].todo = << >>
    /\ pool_lock' = [pool_lock EXCEPT !.writer = None]
    /\ pool_threads' = [pool_threads EXCEPT ![t].pc = "idle"]
    /\ UNCHANGED <<pool_symbols, pool_next_arc, pool_handed>>
    /\ UNCHANGED notPoolVars

PoolNext ==
    \/ \E t \in PoolThreads : InternCall(t)
    \/ \E t \in PoolThreads : InternReadLock(t)
    \/ \E t \in PoolThreads : InternHit(t)
    \/ \E t \in PoolThreads : InternMiss(t)
    \/ \E t \in PoolThreads : InternWriteLock(t)
    \/ \E t \in PoolThreads : InternInsert(t)
    \/ \E t \in PoolThreads : PreloadCall(t)
    \/ \E t \in PoolThreads : PreloadWriteLock(t)
    \/ \E t \in PoolThreads : PreloadInsert(t)
    \/ \E t \in PoolThreads : PreloadReturn(t)

PoolSpecInit ==
    /\ BookInit /\ BitmapIdle /\ RingIdle /\ ServiceIdle
    /\ TimestampIdle /\ PoolInit /\ ValidationIdle /\ UseCaseIdle
    /\ EngineIdle /\ DispatcherIdle

PoolSpec == PoolSpecInit /\ [][PoolNext]_vars

(* ------------------------------------------------------------------ *)
(* The order validator (domain/validation.rs)                           *)
(* ------------------------------------------------------------------ *)

\* A Result<(), ValidationError> is "Ok" or the name of the error's variant;
\* the message the variant carries is not kept.

\* u64::MAX, as the largest integer the model checker represents: every
\* price and quantity offered lies below it
U64Max == 2147483647

\* a sequence as the set of its elements
SeqRange(seq) == {seq[i] : i \in 1..Len(seq)}

\* ValidationConfig::default()
DefaultValidationConfig ==
    [min_price |-> 1, max_price |-> U64Max, min_quantity |-> 1,
     max_quantity |-> 1000000, allowed_symbols |-> << >>]

\* the largest price and quantity offered to validate
MaxValidatedPrice == 4
MaxValidatedQuantity == 4

\* the configurations a validator is created with
ValidationConfigs ==
    {DefaultValidationConfig} \cup
    [min_price : {0, 1, 2}, max_price : {1, 3, U64Max},
     min_quantity : {0, 1, 2}, max_quantity : {1, 3},
     allowed_symbols : {<< >>, <<"BTC/USD">>, <<"BTC/USD", "ETH/USD">>}]

\* the requests offered to validate
ValidationRequests ==
    [user_id : {1}, symbol : {"", "BTC/USD", "ETH/USD", "XRP/USD"},
     order_type : {"Buy"}, price : 0..MaxValidatedPrice,
     quantity : 0..MaxValidatedQuantity]

\* OrderValidator::validate_price
validate_price(config, price) ==
    IF price = 0 THEN "InvalidPrice"
    ELSE IF price < config.min_price THEN "PriceOutOfRange"
    ELSE IF price > config.max_price THEN "PriceOutOfRange"
    ELSE "Ok"

\* OrderValidator::validate_quantity
validate_quantity(config, quantity) ==
    IF quantity = 0 THEN "InvalidQuantity"
    ELSE IF quantity < config.min_quantity THEN "QuantityOutOfRange"
    ELSE IF quantity > config.max_quantity THEN "QuantityOutOfRange"
    ELSE "Ok"

\* OrderValidator::validate_symbol
validate_symbol(config, symbol) ==
    IF symbol = "" THEN "InvalidSymbol"
    ELSE IF config.allowed_symbols # << >>
            /\ ~(\E i \in 1..Len(config.allowed_symbols) :
                    config.allowed_symbols[i] = symbol)
    THEN "InvalidSymbol"
    ELSE "Ok"

\* validate with the quantity checked before the price
validate_QuantityFirst(config, request) ==
    IF validate_quantity(config, request.quantity) # "Ok"
    THEN validate_quantity(config, request.quantity)
    ELSE IF validate_price(config, request.price) # "Ok"
    THEN validate_price(config, request.price)
    ELSE validate_symbol(config, request.symbol)

\* OrderValidator::validate: each `?` returns the first error
validate(config, request) ==
    IF validate_price(config, request.price) # "Ok"
    THEN validate_price(config, request.price)
    ELSE IF validate_quantity(config, request.quantity) # "Ok"
    THEN validate_quantity(config, request.quantity)
    ELSE validate_symbol(config, request.symbol)

\* OrderValidator::new
ValidationInit ==
    /\ validator_config = DefaultValidationConfig
    /\ validation_call = None
    /\ validation_ret = "none"

\* OrderValidator::with_config: a validator with another configuration
WithConfig ==
    /\ \E config \in ValidationConfigs : validator_config' = config
    /\ validation_call' = None
    /\ validation_ret' = "none"
    /\ UNCHANGED notValidationVars

\* one call of validate
Validate ==
    /\ \E request \in ValidationRequests :
         /\ validation_call' = Some(request)
         /\ validation_ret' = validate(validator_config, request)
    /\ UNCHANGED validator_config
    /\ UNCHANGED notValidationVars

ValidationNext == WithConfig \/ Validate

ValidationSpecInit ==
    /\ BookInit /\ BitmapIdle /\ RingIdle /\ ServiceIdle
    /\ TimestampIdle /\ PoolIdle /\ ValidationInit /\ UseCaseIdle
    /\ EngineIdle /\ DispatcherIdle

ValidationSpec == ValidationSpecInit /\ [][ValidationNext]_vars

(* ------------------------------------------------------------------ *)
(* The match order use case (application/use_cases/match_order.rs)      *)
(* ------------------------------------------------------------------ *)

\* The use case owns a TickBasedOrderBook, the book of the first state
\* machine, and an OrderValidator.

\* the validators a use case is created with: the default one, and one that
\* restricts the price, the quantity and the symbol
UseCaseConfigs ==
    {DefaultValidationConfig,
     [min_price |-> MinPrice, max_price |-> MinPrice + 63 * TickSize,
      min_quantity |-> 1, max_quantity |-> 1,
      allowed_symbols |-> <<"BTC/USD">>]}

\* the requests offered to execute: a zero price, min_price and the first
\* price of the second bitmap word, zero and positive quantities, a listed
\* and an unlisted symbol
ExecuteRequests ==
    [user_id : {1}, symbol : {"BTC/USD", "XRP/USD"}, order_type : Sides,
     price : {0, MinPrice, MinPrice + 64 * TickSize},
     quantity : 0..MaxQty]

\* MatchOrderUseCase::new(orderbook, validator) with a new book
UseCaseInit ==
    /\ validator_config \in UseCaseConfigs
    /\ validation_call = None
    /\ validation_ret = "none"
    /\ execute_call = None
    /\ execute_ret = [result |-> "none", error |-> "none", trades |-> << >>,
                      confirmation |-> None]

\* execute hands the request to the book although validation failed, and
\* then returns the validation error
ExecuteRefusesAfterMatching(request, error) ==
    /\ error # "Ok"
    /\ MatchOrderEnds(request, match_order(Book, request, FALSE))
    /\ execute_call' = Some(request)
    /\ execute_ret' = [result |-> "ValidationFailed", error |-> error,
                       trades |-> << >>, confirmation |-> None]
    /\ UNCHANGED cancelled_ok

\* execute returns Err(MatchOrderError::ValidationFailed(error)) at the `?`
\* of step 1
ExecuteRefuses(request, error) ==
    /\ error # "Ok"
    /\ execute_call' = Some(request)
    /\ execute_ret' = [result |-> "ValidationFailed", error |-> error,
                       trades |-> << >>, confirmation |-> None]
    /\ UNCHANGED bookSpecVars

\* execute passes the validated request to the book's match_order, which
\* ends with r, and returns Ok(MatchOrderResult) unless match_order panicked
ExecuteMatches(request, error, r) ==
    /\ error = "Ok"
    /\ MatchOrderEnds(request, r)
    /\ execute_call' = Some(request)
    /\ execute_ret' = [result |-> IF r.panicked THEN "panic" ELSE "Ok",
                       error |-> "none", trades |-> r.trades,
                       confirmation |-> r.confirmation]
    /\ UNCHANGED cancelled_ok

\* one call of execute whose request fails validation
ExecuteInvalid ==
    /\ ~aborted
    /\ \E request \in ExecuteRequests :
         ExecuteRefuses(request, validate(validator_config, request))
    /\ UNCHANGED validator_config
    /\ UNCHANGED notUseCaseVars

\* one call of execute whose request passes validation (in a build without
\* overflow checks match_order always returns)
ExecuteValid ==
    /\ ~aborted
    /\ next_order_id <= MaxOrderId
    /\ \E request \in ExecuteRequests :
         ExecuteMatches(request, validate(validator_config, request),
                        match_order(Book, request, FALSE))
    /\ UNCHANGED validator_config
    /\ UNCHANGED notUseCaseVars

\* one call of execute in a build with overflow checks whose match_order
\* panics in find_prev_one
ExecutePanic ==
    /\ ~aborted
    /\ next_order_id <= MaxOrderId
    /\ \E request \in ExecuteRequests :
         /\ request.order_type = "Sell"
         /\ match_order(Book, request, TRUE).panicked
         /\ ExecuteMatches(request, validate(validator_config, request),
                           match_order(Book, request, TRUE))
    /\ UNCHANGED validator_config
    /\ UNCHANGED notUseCaseVars

UseCaseNext == ExecuteInvalid \/ ExecuteValid \/ ExecutePanic

UseCaseSpecInit ==
    /\ BookInit /\ BitmapIdle /\ RingIdle /\ ServiceIdle
    /\ TimestampIdle /\ PoolIdle /\ UseCaseInit /\ EngineIdle
    /\ DispatcherIdle

UseCaseSpec == UseCaseSpecInit /\ [][UseCaseNext]_vars

(* ------------------------------------------------------------------ *)
(* The single-threaded matching service (services/matching_service.rs)  *)
(* ------------------------------------------------------------------ *)

\* The service owns a TickBasedOrderBook, the book of the first state
\* machine. Every output records the number of the command that produced
\* it, which the code does not keep.

\* the service receives MaxCommand commands, of which at most MaxPending wait
\* in the command channel
MaxCommand == 4
MaxPending == 1

\* the requests sent as NewOrder commands
EngineRequests ==
    [user_id : {1}, symbol : {"BTC/USD"}, order_type : Sides,
     price : {MinPrice, MinPrice + 64 * TickSize}, quantity : Quantities]

\* the commands sent to the service
EngineCommands ==
    [kind : {"NewOrder"}, request : EngineRequests, order_id : {0}]
      \cup [kind : {"CancelOrder"}, request : {NoRequest},
            order_id : 1..MaxOrderId]

\* what get_fast_timestamp may return to the service
Timestamps == {0, MaxClock}

\* process_new_order with the trade ids of every command starting at 1
StampTradesPerCommand(trades, first_trade_id, timestamp) ==
    [k \in 1..Len(trades) |->
        [trades[k] EXCEPT !.trade_id = k, !.timestamp = timestamp]]
\* process_new_order: the trades as the loop sends them, the first of them
\* with trade id first_trade_id
StampTrades(trades, first_trade_id, timestamp) ==
    [k \in 1..Len(trades) |->
        [trades[k] EXCEPT !.trade_id = first_trade_id + k - 1,
                          !.timestamp = timestamp]]

\* process_new_order: the outputs of command n in the order of their sends,
\* the stamped trades and then the confirmation, if there is one
OutputsOf(trades, confirmation, n) ==
    [k \in 1..Len(trades) |->
        [kind |-> "Trade", trade |-> trades[k], confirmation |-> None,
         command |-> n]]
      \o (IF IsSome(confirmation)
          THEN <<[kind |-> "Confirmation", trade |-> None,
                  confirmation |-> confirmation, command |-> n]>>
          ELSE << >>)

\* MatchingService::new with a new book and two empty channels
EngineInit ==
    /\ engine_commands = << >>
    /\ engine_outputs = << >>
    /\ next_trade_id = 1
    /\ output_open = TRUE
    /\ commands_sent = 0
    /\ commands_done = 0
    /\ cancel_commands = {}

\* a command is sent to the service
SendCommand ==
    /\ commands_sent < MaxCommand
    /\ Len(engine_commands) < MaxPending
    /\ \E command \in EngineCommands :
         engine_commands' = Append(engine_commands, command)
    /\ commands_sent' = commands_sent + 1
    /\ UNCHANGED <<engine_outputs, next_trade_id, output_open, commands_done,
                   cancel_commands>>
    /\ UNCHANGED <<bookSpecVars, notEngineVars>>

\* the sends of process_new_order: of the outputs, in order, those are
\* delivered that are sent before the receiver is dropped
OutputsSent(outputs, delivered) ==
    /\ delivered \in 0..Len(outputs)
    /\ output_open \/ delivered = 0
    /\ engine_outputs' = engine_outputs \o SubSeq(outputs, 1, delivered)
    /\ output_open' = (output_open /\ delivered = Len(outputs))

\* process_new_order after match_order has ended with r: the trades get
\* their ids and the timestamp and are sent, then the confirmation
NewOrderProcessed(request, r, timestamp) ==
    /\ MatchOrderEnds(request, r)
    /\ next_trade_id' = next_trade_id + Len(r.trades)
    /\ \E delivered \in 0..(Len(r.trades) + 1) :
         OutputsSent(OutputsOf(StampTrades(r.trades, next_trade_id, timestamp),
                               r.confirmation, commands_done + 1),
                     delivered)

\* run receives a NewOrder command and process_new_order handles it (in a
\* build without overflow checks match_order always returns)
ProcessNewOrder ==
    /\ ~aborted
    /\ next_order_id <= MaxOrderId
    /\ engine_commands # << >>
    /\ Head(engine_commands).kind = "NewOrder"
    /\ \E timestamp \in Timestamps :
         NewOrderProcessed(Head(engine_commands).request,
                           match_order(Book, Head(engine_commands).request, FALSE),
                           timestamp)
    /\ engine_commands' = Tail(engine_commands)
    /\ commands_done' = commands_done + 1
    /\ UNCHANGED <<cancelled_ok, commands_sent, cancel_commands>>
    /\ UNCHANGED notEngineVars

\* run receives a NewOrder command whose match_order panics in
\* find_prev_one, in a build with overflow checks: the service thread ends
ProcessNewOrderPanic ==
    /\ ~aborted
    /\ next_order_id <= MaxOrderId
    /\ engine_commands # << >>
    /\ Head(engine_commands).kind = "NewOrder"
    /\ Head(engine_commands).request.order_type = "Sell"
    /\ MatchOrderPanics(Head(engine_commands).request,
                        match_order(Book, Head(engine_commands).request, TRUE))
    /\ engine_commands' = Tail(engine_commands)
    /\ UNCHANGED <<engine_outputs, next_trade_id, output_open, commands_sent,
                   commands_done, cancelled_ok, cancel_commands>>
    /\ UNCHANGED notEngineVars

\* the record of a processed CancelOrder command: command n named order_id
\* while that order rested in the book
CancelCommandSeen(order_id, n) ==
    cancel_commands' =
        IF order_id \in DOMAIN order_locations
        THEN cancel_commands \cup {[order_id |-> order_id, command |-> n]}
        ELSE cancel_commands

\* run receives a CancelOrder command: process_cancel_order prints it and
\* returns, the book is not called
ProcessCancelOrder ==
    /\ ~aborted
    /\ engine_commands # << >>
    /\ Head(engine_commands).kind = "CancelOrder"
    /\ CancelCommandSeen(Head(engine_commands).order_id, commands_done + 1)
    /\ engine_commands' = Tail(engine_commands)
    /\ commands_done' = commands_done + 1
    /\ UNCHANGED <<engine_outputs, next_trade_id, output_open, commands_sent>>
    /\ UNCHANGED <<bookSpecVars, notEngineVars>>

EngineNext ==
    \/ SendCommand
    \/ ProcessNewOrder
    \/ ProcessNewOrderPanic
    \/ ProcessCancelOrder

EngineSpecInit ==
    /\ BookInit /\ BitmapIdle /\ RingIdle /\ ServiceIdle
    /\ TimestampIdle /\ PoolIdle /\ ValidationIdle /\ UseCaseIdle
    /\ EngineInit /\ DispatcherIdle

EngineSpec == EngineSpecInit /\ [][EngineNext]_vars

(* ------------------------------------------------------------------ *)
(* PartitionedService built from any PartitionConfig                    *)
(* ------------------------------------------------------------------ *)

\* partition_count is 0..MaxPartitionCount, queue_capacity 1..MaxQueueCapacity
\* and the hash of a symbol 0..MaxSymbolHash
MaxPartitionCount == 3
MaxQueueCapacity == 2
MaxSymbolHash == 3

\* the configurations a service is built from
PartitionConfigs ==
    [partition_count : 0..MaxPartitionCount,
     queue_capacity : 1..MaxQueueCapacity]

\* PartitionedService::new: the loop over 0..config.partition_count makes
\* one empty channel per partition
NewPartitions(config) ==
    [p \in 0..(config.partition_count - 1) |-> << >>]

\* PartitionedService::new(config), and the hash DefaultHasher gives every
\* symbol
DispatcherInit ==
    \E config \in PartitionConfigs :
      \E hashes \in [ServiceSymbols -> 0..MaxSymbolHash] :
        dispatcher = [config |-> config,
                      hashes |-> hashes,
                      partitions |-> NewPartitions(config),
                      call |-> "new", partition_id |-> None,
                      panicked |-> FALSE]

\* submit_order(request) for a request with this symbol, up to the send:
\* route_to_partition takes the hash modulo config.partition_count, which
\* panics when the count is 0, and the send goes to partitions[partition_id]
\* (the caller waits while that queue is full)
DispatcherSubmits(symbol, partition_count) ==
    IF partition_count = 0
    THEN dispatcher' = [dispatcher EXCEPT !.call = "submit_order",
                                          !.partition_id = None,
                                          !.panicked = TRUE]
    ELSE /\ Len(dispatcher.partitions[dispatcher.hashes[symbol] % partition_count])
              < dispatcher.config.queue_capacity
         /\ dispatcher' =
              [dispatcher EXCEPT
                 !.call = "submit_order",
                 !.partition_id = Some(dispatcher.hashes[symbol] % partition_count),
                 !.partitions[dispatcher.hashes[symbol] % partition_count] =
                     Append(@, symbol)]

DispatcherSubmit ==
    /\ ~dispatcher.panicked
    /\ \E symbol \in ServiceSymbols :
         DispatcherSubmits(symbol, dispatcher.config.partition_count)
    /\ UNCHANGED notDispatcherVars

\* the worker of partition p takes the oldest order of its queue
DispatcherWorkerTakes(p) ==
    /\ dispatcher.partitions[p] # << >>
    /\ dispatcher' = [dispatcher EXCEPT !.call = "worker",
                                        !.partition_id = None,
                                        !.partitions[p] = Tail(@)]

DispatcherWorker ==
    /\ \E p \in DOMAIN dispatcher.partitions : DispatcherWorkerTakes(p)
    /\ UNCHANGED notDispatcherVars

DispatcherNext == DispatcherSubmit \/ DispatcherWorker

DispatcherSpecInit ==
    /\ BookInit /\ BitmapIdle /\ RingIdle /\ ServiceIdle
    /\ TimestampIdle /\ PoolIdle /\ ValidationIdle /\ UseCaseIdle
    /\ EngineIdle /\ DispatcherInit

DispatcherSpec == DispatcherSpecInit /\ [][DispatcherNext]_vars

(* ------------------------------------------------------------------ *)
(* Observations used by the properties                                 *)
(* ------------------------------------------------------------------ *)

\* the orders resting in a level slot, oldest first
LevelOrders(slot) == IF slot = None THEN << >> ELSE RbSeq(Unwrap(slot))
QLen(slot) == Len(LevelOrders(slot))

\* every order resting on a side / in the book
SideOrders(levels) ==
    UNION {{LevelOrders(levels[i])[k] : k \in 1..QLen(levels[i])} : i \in Levels}
RestingOrders == SideOrders(bid_levels) \cup SideOrders(ask_levels)
RestingIds == {o.order_id : o \in RestingOrders}

BidsRest == \E i \in Levels : QLen(bid_levels[i]) > 0
AsksRest == \E i \in Levels : QLen(ask_levels[i]) > 0

\* a price the contract does not allow: not min_price + k * tick_size within range
InvalidPrice(p) == ~(\E k \in 0..MaxIndex : p = MinPrice + k * TickSize)

\* the last call was a match_order with a valid price, and it returned
MatchReturned ==
    /\ call.op = "match_order"
    /\ ret.result = "returned"
    /\ ~InvalidPrice(call.request.price)

RECURSIVE SumQty(_)
SumQty(trades) ==
    IF trades = << >> THEN 0
    ELSE Head(trades).matched_quantity + SumQty(Tail(trades))

\* the resting side's order id of a trade of an incoming order of type order_type
CounterId(order_type, t) ==
    IF order_type = "Buy" THEN t.seller_order_id ELSE t.buyer_order_id

RECURSIVE TradesAt(_, _)
\* the trades executed at one price, in emission order
TradesAt(trades, price) ==
    IF trades = << >> THEN << >>
    ELSE IF Head(trades).matched_price = price
         THEN <<Head(trades)>> \o TradesAt(Tail(trades), price)
         ELSE TradesAt(Tail(trades), price)

(* ------------------------------------------------------------------ *)
(* Properties                                                          *)
(* ------------------------------------------------------------------ *)

\* C1: between calls, when both sides hold resting orders, the best bid
\* price is strictly lower than the best ask price (the book is not crossed).
C1_NeverCrossed ==
    (~aborted /\ BidsRest /\ AsksRest) =>
        /\ IsSome(best_bid(Book))
        /\ IsSome(best_ask(Book))
        /\ Unwrap(best_bid(Book)) < Unwrap(best_ask(Book))

\* C2: price priority. The trades of one match_order call have non-decreasing
\* (Buy) / non-increasing (Sell) matched_price, and when the call returns
\* either the incoming order is completely filled or no resting opposite
\* order priced within its limit remains in the book.
C2_PricePriority ==
    MatchReturned =>
      LET req == call.request
          trades == ret.trades
      IN  /\ \A i, j \in 1..Len(trades) :
                i < j =>
                  IF req.order_type = "Buy"
                  THEN trades[i].matched_price <= trades[j].matched_price
                  ELSE trades[i].matched_price >= trades[j].matched_price
          /\ \/ SumQty(trades) = req.quantity
             \/ IF req.order_type = "Buy"
                THEN \A i \in Levels :
                       QLen(ask_levels[i]) > 0 => index_to_price(i) > req.price
                ELSE \A i \in Levels :
                       QLen(bid_levels[i]) > 0 => index_to_price(i) < req.price

\* every level queue holds its orders in arrival order (order ids are handed
\* out in arrival order)
QueuesInArrivalOrder ==
    \A i \in Levels :
      /\ \A k, l \in 1..QLen(bid_levels[i]) :
            k < l => LevelOrders(bid_levels[i])[k].order_id
                       < LevelOrders(bid_levels[i])[l].order_id
      /\ \A k, l \in 1..QLen(ask_levels[i]) :
            k < l => LevelOrders(ask_levels[i])[k].order_id
                       < LevelOrders(ask_levels[i])[l].order_id

\* the trades of this step at every level name the orders that were queued
\* at that level before the step, from the head on, each but the last one
\* completely filled
FifoStep ==
    LET order_type == call'.request.order_type
        opposite == IF order_type = "Buy" THEN ask_levels ELSE bid_levels
    IN  \A i \in Levels :
          LET ts == TradesAt(ret'.trades, index_to_price(i))
              q == LevelOrders(opposite[i])
          IN  /\ Len(ts) <= Len(q)
              /\ \A k \in 1..Len(ts) :
                    /\ CounterId(order_type, ts[k]) = q[k].order_id
                    /\ k < Len(ts) => ts[k].matched_quantity = q[k].quantity

\* C3: FIFO within a price level. Queues hold their orders in arrival order,
\* and the i-th trade of a call at a level names the i-th order queued at
\* that level; a later order is filled only once the earlier ones are
\* completely filled.
C3_FifoWithinLevel ==
    [][(call'.op = "match_order" /\ ret'.result = "returned")
          => (FifoStep /\ QueuesInArrivalOrder')]_vars

\* C3 witness: one call has matched two resting orders at a single level
C3_Witness ==
    /\ MatchReturned
    /\ \E i, j \in 1..Len(ret.trades) :
          i < j /\ ret.trades[i].matched_price = ret.trades[j].matched_price

\* the quantity with which the order of the last match_order call rests
ResidualQty ==
    LET mine == {o \in RestingOrders : o.order_id = next_order_id - 1}
    IN  IF mine = {} THEN 0 ELSE (CHOOSE o \in mine : TRUE).quantity

\* C4: quantity conservation of the incoming order. For a match_order call
\* with a valid price, the matched quantities of the returned trades plus
\* the quantity of the residual actually resting in the book equal the
\* requested quantity.
C4_QuantityConserved ==
    MatchReturned => SumQty(ret.trades) + ResidualQty = call.request.quantity

\* C5: once cancel_order(id) has returned Ok, id is absent from the
\* id-to-location map and no trade of a later match_order names it as buyer
\* or seller order.
C5_CancelledNeverTrades ==
    \A id \in cancelled_ok :
      /\ id \notin DOMAIN order_locations
      /\ \A k \in 1..Len(ret.trades) :
            /\ ret.trades[k].buyer_order_id # id
            /\ ret.trades[k].seller_order_id # id

\* C5 witness: a match_order call trades with an order that arrived after a
\* cancelled one
C5_Witness ==
    /\ MatchReturned
    /\ \E id \in cancelled_ok, k \in 1..Len(ret.trades) :
          CounterId(call.request.order_type, ret.trades[k]) > id

\* C6: between calls the id-to-location map holds exactly the ids of the
\* orders resting in the book, each mapped to the index and side of the
\* queue that holds it.
C6_LocationsExact ==
    ~aborted =>
      /\ DOMAIN order_locations = RestingIds
      /\ \A i \in Levels :
            /\ \A k \in 1..QLen(bid_levels[i]) :
                  LET id == LevelOrders(bid_levels[i])[k].order_id
                  IN  /\ id \in DOMAIN order_locations
                      /\ order_locations[id] = [price_idx |-> i, is_bid |-> TRUE]
            /\ \A k \in 1..QLen(ask_levels[i]) :
                  LET id == LevelOrders(ask_levels[i])[k].order_id
                  IN  /\ id \in DOMAIN order_locations
                      /\ order_locations[id] = [price_idx |-> i, is_bid |-> FALSE]

\* C6 witness: a call filled the incoming order completely (its id is gone),
\* left another order resting, and an earlier residual was dropped or removed
C6_Witness ==
    /\ MatchReturned
    /\ Len(ret.trades) > 0
    /\ ret.confirmation = None
    /\ DOMAIN order_locations # {}
    /\ Cardinality(DOMAIN order_locations) < next_order_id - 2

\* C7: between calls, for every index and side, the level slot is Some iff
\* its queue is non-empty iff the side's bitmap bit is 1.
C7_SlotQueueBitAgree ==
    ~aborted =>
      \A i \in Levels :
        /\ IsSome(bid_levels[i]) <=> QLen(bid_levels[i]) > 0
        /\ QLen(bid_levels[i]) > 0 <=> BitmapGet(bid_bitmap, i)
        /\ IsSome(ask_levels[i]) <=> QLen(ask_levels[i]) > 0
        /\ QLen(ask_levels[i]) > 0 <=> BitmapGet(ask_bitmap, i)

\* C8: between calls the cached best indices equal the bitmap extremes.
C8_BestIsBitmapExtreme ==
    ~aborted =>
      /\ best_bid_idx = find_last_one(bid_bitmap)
      /\ best_ask_idx = find_first_one(ask_bitmap)

\* C8 witness: a cancel has emptied the best bid level while a lower bid
\* level is still occupied
C8_Witness ==
    /\ call.op = "cancel_order"
    /\ ret.result = "Ok"
    /\ IsSome(best_bid_idx)
    /\ \E i \in Levels :
          /\ i > Unwrap(best_bid_idx)
          /\ IsSome(bid_levels[i])
          /\ QLen(bid_levels[i]) = 0

\* C9: cancel-all round trip. Once every order that was still resting has
\* been cancelled (no id is left to cancel), no order rests at any level,
\* all bits of both bitmaps are 0 and best_bid = best_ask = none.
C9_CancelAllEmptiesBook ==
    (~aborted /\ DOMAIN order_locations = {}) =>
      /\ RestingOrders = {}
      /\ \A i \in Levels : ~BitmapGet(bid_bitmap, i) /\ ~BitmapGet(ask_bitmap, i)
      /\ best_bid(Book) = None
      /\ best_ask(Book) = None

\* C9 witness: two orders rested on the two sides and both were cancelled
C9_Witness ==
    /\ call.op = "cancel_order"
    /\ ret.result = "Ok"
    /\ Cardinality(cancelled_ok) >= 2
    /\ DOMAIN order_locations = {}
    /\ \E i, j \in Levels : IsSome(bid_levels[i]) /\ IsSome(ask_levels[j])

\* C10: match_order with an invalid price returns no trade and no
\* confirmation and leaves levels, bitmaps, best-price caches and the
\* id-to-location map unchanged; min_price and max_price are accepted.
C10_InvalidPriceRejected ==
    [][(call'.op = "match_order" /\ ret'.result = "returned") =>
          /\ InvalidPrice(call'.request.price) =>
                /\ ret'.trades = << >>
                /\ ret'.confirmation = None
                /\ UNCHANGED <<bid_levels, ask_levels, bid_bitmap, ask_bitmap,
                               best_bid_idx, best_ask_idx, order_locations>>
          /\ call'.request.price \in {MinPrice, MaxPrice} =>
                (ret'.trades # << >> \/ ret'.confirmation # None)]_vars

\* C10 witness: an off-tick or out-of-range order was submitted to a book
\* that holds resting orders
C10_Witness ==
    /\ call.op = "match_order"
    /\ InvalidPrice(call.request.price)
    /\ DOMAIN order_locations # {}

\* C11: cancel_order(id) for an id that is not in the id-to-location map
\* (never issued, not resting any more because it was filled, or already
\* cancelled with Ok) returns "not found" and leaves the book unchanged; so
\* does a second cancel of an id after a successful one.
C11_CancelUnknownNotFound ==
    [][(/\ call'.op = "cancel_order"
        /\ \/ call'.order_id \notin DOMAIN order_locations
           \/ call'.order_id >= next_order_id
           \/ call'.order_id \notin RestingIds
           \/ call'.order_id \in cancelled_ok)
          => (ret'.result = "not found" /\ UNCHANGED bookVars)]_vars

\* C11 witness: an id that was cancelled with Ok is cancelled a second time
\* while another order rests in the book
C11_Witness ==
    /\ call.op = "cancel_order"
    /\ call.order_id \in cancelled_ok
    /\ ret.result # "Ok"
    /\ DOMAIN order_locations # {}

\* the level slot of the price and side of the last match_order request
OwnLevel ==
    IF call.request.order_type = "Buy"
    THEN bid_levels[Unwrap(price_to_index(call.request.price))]
    ELSE ask_levels[Unwrap(price_to_index(call.request.price))]

\* C12: when the residual of the incoming order could not be inserted because
\* the queue at its price level holds queue_capacity orders, match_order
\* drops the residual and returns no confirmation for it.
C12_OverflowNoConfirmation ==
    (/\ MatchReturned
     /\ SumQty(ret.trades) < call.request.quantity
     /\ QLen(OwnLevel) = QueueCapacity
     /\ (next_order_id - 1) \notin RestingIds)
        => ret.confirmation = None

\* the incoming side's order id of a trade of an incoming order of type order_type
IncomingId(order_type, t) ==
    IF order_type = "Buy" THEN t.buyer_order_id ELSE t.seller_order_id

\* C13: a match_order call with a valid price returns a confirmation iff the
\* incoming order has remaining quantity > 0 after matching; the
\* confirmation carries the submitter's user id and the order id drawn for
\* the call, which is the incoming side's order id of every trade of the call.
C13_ConfirmationIffRemaining ==
    MatchReturned =>
      /\ IsSome(ret.confirmation)
            <=> call.request.quantity - SumQty(ret.trades) > 0
      /\ IsSome(ret.confirmation) =>
            Unwrap(ret.confirmation) = [user_id |-> call.request.user_id,
                                        order_id |-> next_order_id - 1]
      /\ \A k \in 1..Len(ret.trades) :
            IncomingId(call.request.order_type, ret.trades[k])
                = next_order_id - 1

\* C13 witness: a partially filled order: trades and a confirmation in one call
C13_Witness ==
    /\ MatchReturned
    /\ Len(ret.trades) > 0
    /\ IsSome(ret.confirmation)
    /\ next_order_id > 2

\* C14 as stated: every match_order call that returns advances
\* next_order_id by exactly one, whatever its outcome.
C14_EveryCallAdvances ==
    [][(call'.op = "match_order" /\ ret'.result = "returned")
          => next_order_id' = next_order_id + 1]_vars

\* C14 amended: a match_order call with a valid price advances next_order_id
\* by exactly one whether the order rests, is partially or completely
\* filled; a call rejected for an invalid price and a cancel_order leave the
\* counter unchanged. The id of a call is the counter's value before the
\* call, every id a call hands out is below the counter after the call, so
\* ids are strictly increasing and never reused.
C14_ValidCallAdvances ==
    [][/\ (call'.op = "match_order" /\ ret'.result = "returned") =>
             /\ ~InvalidPrice(call'.request.price)
                   => next_order_id' = next_order_id + 1
             /\ InvalidPrice(call'.request.price)
                   => next_order_id' = next_order_id
             /\ IsSome(ret'.confirmation)
                   => Unwrap(ret'.confirmation).order_id = next_order_id
             /\ \A k \in 1..Len(ret'.trades) :
                   /\ IncomingId(call'.request.order_type, ret'.trades[k])
                         = next_order_id
                   /\ CounterId(call'.request.order_type, ret'.trades[k])
                         < next_order_id
       /\ call'.op = "cancel_order" => next_order_id' = next_order_id
       /\ next_order_id' >= next_order_id]_vars

\* C14 witness: a call was rejected for an invalid price after two calls had
\* drawn ids, and the counter still shows the next id
C14_Witness ==
    /\ call.op = "match_order"
    /\ InvalidPrice(call.request.price)
    /\ next_order_id = 3
    /\ Cardinality(DOMAIN order_locations) = 2

\* the indices of the bits of bitmap that are 1
BitsSet == {i \in 0..(bitmap.len - 1) : BitmapGet(bitmap, i)}

\* the smallest element of S above start / largest below start, as an Option
NextAbove(S, start) ==
    IF {i \in S : i > start} = {} THEN None
    ELSE Some(SetMin({i \in S : i > start}))
PrevBelow(S, start) ==
    IF {i \in S : i < start} = {} THEN None
    ELSE Some(SetMax({i \in S : i < start}))

\* C15: find_next_one(start) returns the smallest index i > start whose bit
\* is 1, or none if there is none, for every content and every start in
\* [0, len), starts next to a 64-bit word boundary included.
C15_FindNextOneCorrect ==
    bitmap_call.op = "find_next_one" =>
        bitmap_ret.value = NextAbove(BitsSet, bitmap_call.index)

\* C16: find_prev_one(start) returns the largest index i < start whose bit
\* is 1, or none if there is none, for every content and every start in
\* [0, len), starts next to a 64-bit word boundary included.
C16_FindPrevOneCorrect ==
    bitmap_call.op = "find_prev_one" =>
        /\ ~bitmap_ret.panicked
        /\ bitmap_ret.value = PrevBelow(BitsSet, bitmap_call.index)

\* C17: after any sequence of set(i, v) with 0 <= i < len, find_first_one
\* returns the smallest index whose bit is 1 and find_last_one the largest,
\* both return none exactly when no bit is set, and no index >= len is
\* returned, also when len is not a multiple of 64.
C17_FindFirstLastCorrect ==
    /\ bitmap_call.op = "find_first_one" =>
          /\ bitmap_ret.value = NextAbove(BitsSet, -1)
          /\ bitmap_ret.value = None <=> BitsSet = {}
          /\ IsSome(bitmap_ret.value) => Unwrap(bitmap_ret.value) < bitmap.len
    /\ bitmap_call.op = "find_last_one" =>
          /\ bitmap_ret.value = PrevBelow(BitsSet, bitmap.len)
          /\ bitmap_ret.value = None <=> BitsSet = {}
          /\ IsSome(bitmap_ret.value) => Unwrap(bitmap_ret.value) < bitmap.len

\* C17 witness: find_last_one returns the last index of a bitmap whose
\* length is not a multiple of 64, with bits set in the words below
C17_Witness ==
    /\ bitmap_call.op = "find_last_one"
    /\ bitmap.len % 64 # 0
    /\ bitmap.len > 64
    /\ bitmap_ret.value = Some(bitmap.len - 1)
    /\ Cardinality(BitsSet) >= 3

\* the oldest value of a sequence as an Option (a one-element or empty tuple)
Oldest(q) == IF q = << >> THEN None ELSE Some(Head(q))

\* C18: under any sequence of push, pop, front, clear and drain the buffer
\* behaves as a bounded FIFO sequence: its live elements, read from head,
\* are the values pushed and not yet removed in push order; pop and front
\* return the oldest of them, also after head and tail have wrapped; drain
\* yields them all in push order and leaves the buffer empty.
C18_RingIsBoundedFifo ==
    [][/\ RbSeq(ring') = ring_fifo'
       /\ ring_call'.op = "pop" => ring_ret'.values = Oldest(ring_fifo)
       /\ ring_call'.op = "front" => ring_ret'.values = Oldest(ring_fifo)
       /\ ring_call'.op = "drain" =>
             /\ ring_ret'.values = ring_fifo
             /\ ring'.len = 0
       /\ ring_call'.op = "clear" => ring'.len = 0]_vars

\* C18 witness: a pop returns a value from a buffer whose tail has wrapped
\* around the end of the storage while elements remain
C18_Witness ==
    /\ ring_call.op = "pop"
    /\ ring_ret.values # << >>
    /\ ring.len >= 1
    /\ ring.tail < ring.head

\* C19: push on a full buffer returns Err with the pushed value and leaves
\* head, tail, len and the stored elements unchanged; 0 <= len <= capacity
\* in every state; a push right after a pop that removed a value succeeds.
C19_PushOnFullRejected ==
    [][/\ (ring_call'.op = "push" /\ ring.len = ring.capacity) =>
             /\ ~ring_ret'.ok
             /\ ring_ret'.values = <<ring_call'.value>>
             /\ ring' = ring
       /\ (ring_call'.op = "push" /\ ring_call.op = "pop"
             /\ ring_ret.values # << >>) =>
             /\ ring_ret'.ok
             /\ ring'.len = ring.len + 1
       /\ ring'.len >= 0
       /\ ring'.len <= ring'.capacity]_vars

\* C19 witness: a push was rejected by a full buffer whose head is not at
\* the start of the storage
C19_Witness ==
    /\ ring_call.op = "push"
    /\ ~ring_ret.ok
    /\ ring.len = ring.capacity
    /\ ring.head > 0

\* C20: the requests of one producer that route to one partition are
\* processed by that partition's worker in submit order, whether they carry
\* the same symbol or different symbols, and across batch boundaries; a
\* worker only processes requests routed to its partition.
C20_SubmitOrderPreserved ==
    \A p \in Partitions :
      /\ \A i \in 1..Len(processed[p]) :
            route_to_partition(processed[p][i].request.symbol) = p
      /\ \A i, j \in 1..Len(processed[p]) :
            (i < j /\ processed[p][i].request.producer
                          = processed[p][j].request.producer)
                => processed[p][i].request.seq < processed[p][j].request.seq

\* C20 witness: one worker has processed more requests of one producer than
\* fit in a batch, of two different symbols
C20_Witness ==
    \E p \in Partitions :
      /\ Len(processed[p]) > BatchSize
      /\ \A i \in 1..Len(processed[p]) : processed[p][i].request.producer = 1
      /\ \E i, j \in 1..Len(processed[p]) :
            processed[p][i].request.symbol # processed[p][j].request.symbol

\* C21: submit_order never blocks its caller: no submit_order call is ever
\* waiting in the send for room in a full partition queue (on a full queue
\* the call returns the queue-full error at once).
C21_SubmitOrderNeverBlocks ==
    \A pr \in Producers :
        ~(producers[pr].call = "submit_order" /\ producers[pr].blocked)

\* whether an OrderRequest is the n-th request of producer pr
IsOrder(order_req, pr, n) == order_req.producer = pr /\ order_req.seq = n

\* how often the n-th request of producer pr occurs in a sequence of requests
CountIn(requests, pr, n) ==
    Cardinality({i \in 1..Len(requests) : IsOrder(requests[i], pr, n)})

\* how often process_order has been called with the n-th request of pr
TimesProcessed(pr, n) ==
    Cardinality({<<p, i>> \in Partitions \X (1..MaxSubmit) :
                    /\ i <= Len(processed[p])
                    /\ IsOrder(processed[p][i].request, pr, n)})

RECURSIVE TimesHeld(_, _, _)
\* how often the n-th request of pr waits in a queue or in a collected batch
\* of the partitions below p
TimesHeld(pr, n, p) ==
    IF p = 0 THEN 0
    ELSE CountIn(queues[p - 1], pr, n) + CountIn(workers[p - 1].batch, pr, n)
           + TimesHeld(pr, n, p - 1)

\* the send of the n-th request of producer pr has completed
Accepted(pr, n) ==
    /\ n <= producers[pr].submitted
    /\ CountIn(producers[pr].pending, pr, n) = 0

\* C22 (safety part): a request whose send has completed is in exactly one
\* place (a queue, a collected batch, or processed once), a request not yet
\* sent is in none, and no queue holds more than queue_capacity requests
C22_NoDropNoDuplicate ==
    /\ \A p \in Partitions : Len(queues[p]) <= ChannelCapacity
    /\ \A pr \in Producers : \A n \in 1..MaxSubmit :
          /\ TimesProcessed(pr, n) + TimesHeld(pr, n, PartitionCount)
                = IF Accepted(pr, n) THEN 1 ELSE 0

\* C22: the dispatcher does not drop: every request accepted by submit_order
\* or submit_order_batch is processed exactly once, no partition queue ever
\* holds more than queue_capacity requests, and with the worker scheduled
\* fairly every accepted request is eventually processed.
C22_AcceptedProcessedOnce ==
    /\ []C22_NoDropNoDuplicate
    /\ \A pr \in FairProducers : \A n \in 1..MaxSubmit :
          Accepted(pr, n) ~> (TimesProcessed(pr, n) = 1)

\* C22 witness: a submit_order_batch call has returned Ok, one of its
\* requests has been processed and another one waits in a full queue
C22_Witness ==
    \E pr \in Producers : \E p \in Partitions :
      /\ producers[pr].call = "submit_order_batch"
      /\ producers[pr].result = "Ok"
      /\ Len(queues[p]) = ChannelCapacity
      /\ \E n \in 1..MaxSubmit : TimesProcessed(pr, n) = 1
      /\ \E i \in 1..Len(queues[p]) : queues[p][i].producer = pr

\* the results of the process_order calls made with the n-th request of pr
ResultsOf(pr, n) ==
    {[trades |-> processed[p][i].trades,
      confirmation |-> processed[p][i].confirmation] :
        <<p, i>> \in {<<q, j>> \in Partitions \X (1..MaxSubmit) :
                         /\ j <= Len(processed[q])
                         /\ IsOrder(processed[q][j].request, pr, n)}}

\* the producer is inside submit_order_sync with its n-th request
InSyncCall(pr, n) ==
    /\ producers[pr].call = "submit_order_sync"
    /\ producers[pr].submitted = n
    /\ producers[pr].result = "none"

\* submit_order_sync has returned for the n-th request of the producer
SyncReturned(pr, n) ==
    /\ producers[pr].call = "submit_order_sync"
    /\ producers[pr].submitted = n
    /\ producers[pr].result = "Ok"

\* C23 (safety part): the response channel of a call never holds more than
\* one response, and only of a submit_order_sync call whose request has been
\* processed; what is in the channel, and what the call returns, is the
\* result of process_order for that very request; after the call has
\* returned no further response arrives
C23_OneReplyOfOwnRequest ==
    \A pr \in Producers :
      /\ Len(producers[pr].reply) <= 1
      /\ producers[pr].reply # << >> =>
            /\ InSyncCall(pr, producers[pr].submitted)
            /\ ResultsOf(pr, producers[pr].submitted)
                  = {producers[pr].reply[1]}
      /\ SyncReturned(pr, producers[pr].submitted) =>
            /\ producers[pr].reply = << >>
            /\ IsSome(producers[pr].response)
            /\ ResultsOf(pr, producers[pr].submitted)
                  = {Unwrap(producers[pr].response)}

\* C23: submit_order_sync returns the response produced by matching that
\* very request, the worker sends exactly one reply per synchronous request,
\* and with fair scheduling every submit_order_sync call eventually returns.
C23_SyncReturnsOwnResponse ==
    /\ []C23_OneReplyOfOwnRequest
    /\ \A pr \in FairProducers : \A n \in 1..MaxSubmit :
          InSyncCall(pr, n) ~> SyncReturned(pr, n)

\* C23 witness: a submit_order_sync call has returned a response with a
\* trade against an order submitted before it
C23_Witness ==
    \E pr \in Producers :
      /\ SyncReturned(pr, producers[pr].submitted)
      /\ Unwrap(producers[pr].response).trades # << >>
      /\ Unwrap(producers[pr].response).confirmation = None

\* C24: orders for two different symbols never trade against each other,
\* even when both symbols hash to the same partition: in every trade a
\* worker produces, the resting order was submitted for the symbol of the
\* incoming request.
C24_SymbolsNeverTradeTogether ==
    \A p \in Partitions : \A i \in 1..Len(processed[p]) :
        \A k \in 1..Len(processed[p][i].trades) :
            processed[p][i].trades[k].counter_symbol
                = processed[p][i].request.symbol

\* the requests that have reached partition p: those waiting in its queue,
\* those in the batch its worker collected and those it has processed
RequestsAt(p) ==
    {queues[p][i] : i \in 1..Len(queues[p])}
      \cup {workers[p].batch[i] : i \in 1..Len(workers[p].batch)}
      \cup {processed[p][i].request : i \in 1..Len(processed[p])}

\* C25 (state part): the partition a request is enqueued on is the symbol's
\* hash modulo the partition count, an index in [0, N), so requests for the
\* same symbol are all on the same partition
C25_SameSymbolSamePartition ==
    /\ \A p \in Partitions : \A o \in RequestsAt(p) :
          p = hash_of[o.symbol] % PartitionCount
    /\ \A symbol \in ServiceSymbols :
          /\ hash_of[symbol] % PartitionCount >= 0
          /\ hash_of[symbol] % PartitionCount < PartitionCount
    /\ \A p, q \in Partitions :
          \A a \in RequestsAt(p) : \A b \in RequestsAt(q) :
              a.symbol = b.symbol => p = q

\* C25: routing is a deterministic function of the symbol and the partition
\* count: the index is in [0, N), the function does not change while the
\* service runs, and requests for the same symbol are always enqueued on
\* the same partition queue.
C25_RoutingDeterministic ==
    /\ []C25_SameSymbolSamePartition
    /\ [][hash_of' = hash_of]_vars

\* C25 witness: both producers have had requests for one symbol processed by
\* one partition while a request for the other symbol waits on the other
\* partition
C25_Witness ==
    \E p, q \in Partitions :
      /\ p # q
      /\ queues[q] # << >>
      /\ \E i, j \in 1..Len(processed[p]) :
            /\ processed[p][i].request.producer # processed[p][j].request.producer
            /\ processed[p][i].request.symbol = processed[p][j].request.symbol
            /\ queues[q][1].symbol # processed[p][i].request.symbol

\* C26: the values get_fast_timestamp returns to one thread never decrease,
\* whatever the interleaving of the threads that call get_fast_timestamp
\* and force_update_timestamp, the wall clock never going back.
C26_FastTimestampMonotonic ==
    \A t \in Threads :
        IsSome(ts_threads[t].prev) =>
            Unwrap(ts_threads[t].prev) <= Unwrap(ts_threads[t].last)

\* C27 (state part): all handles intern has returned for one string are the
\* same Arc, the one the pool holds for the string, and the pool holds
\* different Arcs for different strings
C27_OneArcPerString ==
    /\ \A symbol \in PoolStrings :
          /\ Cardinality(pool_handed[symbol]) <= 1
          /\ \A arc \in pool_handed[symbol] : pool_symbols[symbol] = Some(arc)
    /\ \A a, b \in PoolStrings :
          (a # b /\ IsSome(pool_symbols[a])) => pool_symbols[a] # pool_symbols[b]

\* C27: the handles intern returns for the same string are pointer-identical
\* across every interleaving of intern and preload, the pool holds exactly
\* one entry per distinct string, and an existing entry is never replaced.
C27_InternIsStable ==
    /\ []C27_OneArcPerString
    /\ [][\A symbol \in PoolStrings :
            IsSome(pool_symbols[symbol])
                => pool_symbols'[symbol] = pool_symbols[symbol]]_vars

\* C27 witness: a thread that missed the string on the fast path holds the
\* write lock while the string has meanwhile been interned by another
\* thread, which has received its handle
C27_Witness ==
    \E t \in PoolThreads :
      /\ pool_threads[t].pc = "intern_write"
      /\ IsSome(pool_symbols[pool_threads[t].symbol])
      /\ pool_handed[pool_threads[t].symbol] # {}

\* the last validate call was made with a request whose price is non-zero
\* and within [min_price, max_price]
PriceAccepted ==
    /\ Unwrap(validation_call).price # 0
    /\ Unwrap(validation_call).price >= validator_config.min_price
    /\ Unwrap(validation_call).price <= validator_config.max_price

\* ... whose quantity is non-zero and within [min_quantity, max_quantity]
QuantityAccepted ==
    /\ Unwrap(validation_call).quantity # 0
    /\ Unwrap(validation_call).quantity >= validator_config.min_quantity
    /\ Unwrap(validation_call).quantity <= validator_config.max_quantity

\* ... whose symbol is non-empty and in the allow-list, if there is one
SymbolAccepted ==
    /\ Unwrap(validation_call).symbol # ""
    /\ \/ validator_config.allowed_symbols = << >>
       \/ Unwrap(validation_call).symbol
             \in SeqRange(validator_config.allowed_symbols)

\* C28: validate returns Ok exactly when the price is non-zero and within
\* [min_price, max_price], the quantity is non-zero and within
\* [min_quantity, max_quantity], and the symbol is non-empty and allowed;
\* otherwise it returns the error of the first violated rule, price before
\* quantity before symbol: InvalidPrice / InvalidQuantity for zero,
\* PriceOutOfRange / QuantityOutOfRange for the range, InvalidSymbol.
C28_ValidateFirstViolatedRule ==
    IsSome(validation_call) =>
      /\ validation_ret = "Ok"
            <=> (PriceAccepted /\ QuantityAccepted /\ SymbolAccepted)
      /\ ~PriceAccepted =>
            validation_ret = IF Unwrap(validation_call).price = 0
                             THEN "InvalidPrice" ELSE "PriceOutOfRange"
      /\ (PriceAccepted /\ ~QuantityAccepted) =>
            validation_ret = IF Unwrap(validation_call).quantity = 0
                             THEN "InvalidQuantity" ELSE "QuantityOutOfRange"
      /\ (PriceAccepted /\ QuantityAccepted /\ ~SymbolAccepted) =>
            validation_ret = "InvalidSymbol"

\* C28 witness: a request with a price above max_price, a zero quantity and
\* a symbol outside the allow-list was refused for its price
C28_Witness ==
    /\ IsSome(validation_call)
    /\ Unwrap(validation_call).price > validator_config.max_price
    /\ Unwrap(validation_call).quantity = 0
    /\ validator_config.allowed_symbols # << >>
    /\ ~SymbolAccepted
    /\ validation_ret = "PriceOutOfRange"

\* C29: when validation fails, execute returns the validation error without
\* invoking the book: levels, bitmaps, best prices, next_order_id and the
\* id-to-location map stay as they were, and no call of the book is made.
C29_InvalidLeavesBookAlone ==
    [][(IsSome(execute_call')
          /\ validate(validator_config, Unwrap(execute_call')) # "Ok")
        => /\ execute_ret'.result = "ValidationFailed"
           /\ execute_ret'.error
                 = validate(validator_config, Unwrap(execute_call'))
           /\ UNCHANGED bookVars
           /\ UNCHANGED <<call, ret>>]_<<bookSpecVars, execute_call, execute_ret>>

\* C29 witness: execute has refused a request with an unlisted symbol and a
\* price that would have crossed the resting orders of the book
C29_Witness ==
    /\ IsSome(execute_call)
    /\ execute_ret.result = "ValidationFailed"
    /\ execute_ret.error = "InvalidSymbol"
    /\ Unwrap(execute_call).order_type = "Sell"
    /\ IsSome(best_bid(Book))
    /\ Unwrap(execute_call).price <= Unwrap(best_bid(Book))

\* the positions of the trades among the outputs of the matching service
TradePositions ==
    {i \in 1..Len(engine_outputs) : engine_outputs[i].kind = "Trade"}

\* C30: the trades the matching service emits carry the trade ids 1, 2,
\* 3, ... in emission order, across commands (unique, each one more than
\* the one before, never 0); the trades of one NewOrder command are emitted
\* before its confirmation and before any output of the next command.
C30_TradeIdsCountUp ==
    /\ \A i \in TradePositions :
          engine_outputs[i].trade.trade_id
              = Cardinality({j \in TradePositions : j <= i})
    /\ \A i, j \in 1..Len(engine_outputs) :
          i < j =>
            /\ engine_outputs[i].command <= engine_outputs[j].command
            /\ (engine_outputs[i].command = engine_outputs[j].command
                  /\ engine_outputs[j].kind = "Trade")
                => engine_outputs[i].kind = "Trade"

\* C30 witness: one command has emitted a trade and then the confirmation of
\* its remainder, and a later command has emitted the next trade
C30_Witness ==
    \E i, j, k \in 1..Len(engine_outputs) :
      /\ i < j /\ j < k
      /\ engine_outputs[i].kind = "Trade"
      /\ engine_outputs[j].kind = "Confirmation"
      /\ engine_outputs[j].command = engine_outputs[i].command
      /\ engine_outputs[k].kind = "Trade"
      /\ engine_outputs[k].command > engine_outputs[j].command
      /\ engine_outputs[k].trade.trade_id = 2

\* C31: a CancelOrder command processed after the NewOrder that rested the
\* order takes the order out of the book, and no command processed after
\* the cancel command trades with the cancelled order.
C31_CancelCommandCancels ==
    \A c \in cancel_commands :
      /\ c.order_id \notin DOMAIN order_locations
      /\ \A i \in TradePositions :
            engine_outputs[i].command > c.command
              => /\ engine_outputs[i].trade.buyer_order_id # c.order_id
                 /\ engine_outputs[i].trade.seller_order_id # c.order_id

\* C32: no single command is fatal to a book: every match_order and every
\* cancel_order call returns a result and the book never enters an aborted
\* state, so that it goes on processing later commands.
C32_NoCommandFatal ==
    /\ ~aborted
    /\ ret.result # "panic"

\* C33: a dispatcher configured with partition_count = 0 has a positive
\* number of partitions, and every order submitted to it is routed to an
\* existing partition.
C33_ZeroMeansAuto ==
    dispatcher.config.partition_count = 0 =>
      /\ Cardinality(DOMAIN dispatcher.partitions) > 0
      /\ ~dispatcher.panicked
      /\ dispatcher.call = "submit_order" =>
           /\ IsSome(dispatcher.partition_id)
           /\ Unwrap(dispatcher.partition_id) \in DOMAIN dispatcher.partitions

\* the trade was made at the level where its resting order sat before the
\* call, on the side opposite to the request, and within the request's limit
TradeAtLevelWithinLimit(request, trade, location) ==
    /\ location.is_bid = (request.order_type = "Sell")
    /\ trade.matched_price = index_to_price(location.price_idx)
    /\ request.order_type = "Buy" => trade.matched_price <= request.price
    /\ request.order_type = "Sell" => trade.matched_price >= request.price

\* C34: every trade's matched_price is the price of the level at which the
\* resting counter-order sits, and it never violates the incoming order's
\* limit: at most request.price for a Buy, at least request.price for a Sell.
C34_MatchedPriceIsLevelPrice ==
    [][call'.op = "match_order" =>
         \A i \in 1..Len(ret'.trades) :
            /\ CounterId(call'.request.order_type, ret'.trades[i])
                 \in DOMAIN order_locations
            /\ TradeAtLevelWithinLimit(
                 call'.request, ret'.trades[i],
                 order_locations[CounterId(call'.request.order_type,
                                           ret'.trades[i])])
      ]_vars

\* C34 witness: a Buy has traded with a resting order at a price below its
\* limit
C34_Witness ==
    /\ call.op = "match_order"
    /\ ret.result = "returned"
    /\ \E i \in 1..Len(ret.trades) :
         /\ call.request.order_type = "Buy"
         /\ ret.trades[i].matched_price < call.request.price

\* the last of the trades ts of a call at a level with queue q before the
\* call filled its resting order only in part
PartialFill(ts, q) ==
    /\ Len(ts) >= 1
    /\ Len(ts) <= Len(q)
    /\ ts[Len(ts)].matched_quantity < q[Len(ts)].quantity

\* after the partial fill the order is the head of the queue q2 of its level
\* with its quantity reduced by the fill, the orders that were behind it in q
\* are behind it still, and locations2 holds its id at its place loc
KeepsHead(ts, q, q2, locations2, loc) ==
    /\ Len(q2) = Len(q) - Len(ts) + 1
    /\ q2[1] = [q[Len(ts)] EXCEPT !.quantity = @ - ts[Len(ts)].matched_quantity]
    /\ q2[1].quantity >= 1
    /\ \A k \in 2..Len(q2) : q2[k] = q[Len(ts) + k - 1]
    /\ q2[1].order_id \in DOMAIN locations2
    /\ locations2[q2[1].order_id] = loc

\* the trades ts of a call at a level begin with the head of the queue q the
\* level had before the call
HeadTradesFirst(order_type, ts, q) ==
    Len(ts) >= 1 => (Len(q) >= 1 /\ CounterId(order_type, ts[1]) = q[1].order_id)

\* a match_order step leaves every partially filled order at the head of its
\* level, and trades at every level with the head first
PartialFillStep(order_type, opposite, opposite2) ==
    \A i \in Levels :
      /\ HeadTradesFirst(order_type, TradesAt(ret'.trades, index_to_price(i)),
                         LevelOrders(opposite[i]))
      /\ PartialFill(TradesAt(ret'.trades, index_to_price(i)),
                     LevelOrders(opposite[i]))
           => KeepsHead(TradesAt(ret'.trades, index_to_price(i)),
                        LevelOrders(opposite[i]), LevelOrders(opposite2[i]),
                        order_locations',
                        [price_idx |-> i, is_bid |-> order_type = "Sell"])

Without(q, order_id) == SelectSeq(q, LAMBDA o : o.order_id # order_id)

\* a successful cancel_order step takes the target out of the queue of its
\* level and leaves every queue's other orders as they were, in their order
CancelKeepsFifo(order_id, location) ==
    /\ \E k \in 1..QLen(CancelSlot(Book, location)) :
          LevelOrders(CancelSlot(Book, location))[k].order_id = order_id
    /\ \A i \in Levels :
          /\ LevelOrders(bid_levels'[i])
               = Without(LevelOrders(bid_levels[i]), order_id)
          /\ LevelOrders(ask_levels'[i])
               = Without(LevelOrders(ask_levels[i]), order_id)

\* C36: cancel_order removes exactly the target order and preserves the
\* relative FIFO order of all other orders at the same price level: a later
\* incoming order that sweeps the level trades with the surviving orders in
\* their original arrival order.
C36_CancelPreservesFifo ==
    [][/\ (call'.op = "cancel_order" /\ ret'.result = "Ok")
            => (/\ call'.order_id \in DOMAIN order_locations
                /\ CancelKeepsFifo(call'.order_id,
                                   order_locations[call'.order_id]))
       /\ (call'.op = "match_order" /\ ret'.result = "returned")
            => (FifoStep /\ QueuesInArrivalOrder)
      ]_vars

\* C36 witness: of three orders at one level the middle one was cancelled,
\* and one incoming order has then traded with the oldest and the newest,
\* in this order
C36_Witness ==
    /\ MatchReturned
    /\ Len(ret.trades) = 2
    /\ ret.trades[1].matched_price = ret.trades[2].matched_price
    /\ \E c \in cancelled_ok :
         /\ CounterId(call.request.order_type, ret.trades[1]) < c
         /\ c < CounterId(call.request.order_type, ret.trades[2])

\* the orders of a sequence that go to partition p, in the order of the
\* sequence: what submit_order, called on them one by one, sends to p
SentTo(orders, p) ==
    SelectSeq(orders, LAMBDA o : hash_of[o.symbol] % PartitionCount = p)

\* the input vector of a submit_order_batch call of producer pr that took
\* the requests first..last, rebuilt from the orders the call is to send
BatchVector(sends, first, last) ==
    [k \in 1..(last - first + 1) |->
        CHOOSE o \in {sends[i] : i \in 1..Len(sends)} : o.seq = first + k - 1]

\* the orders a submit_order_batch call is to send are those of its input
\* vector, each once, and those of every partition are in vector order
BatchAsOneByOne(sends, first, last) ==
    /\ Len(sends) = last - first + 1
    /\ \A n \in first..last : \E i \in 1..Len(sends) : sends[i].seq = n
    /\ \A q \in Partitions :
          SentTo(sends, q) = SentTo(BatchVector(sends, first, last), q)

\* C37: submit_order_batch enqueues the orders of each partition in the same
\* relative order they have in the input vector, so its effect on every
\* partition's queue equals that of calling submit_order on the same orders
\* one by one in vector order.
C37_BatchAsOneByOne ==
    [][\A pr \in Producers :
          (/\ producers'[pr].call = "submit_order_batch"
           /\ producers'[pr].submitted > producers[pr].submitted)
            => BatchAsOneByOne(producers'[pr].pending,
                               producers[pr].submitted + 1,
                               producers'[pr].submitted)]_vars

\* C37 witness: a batch of two orders for one partition has been grouped,
\* and the send loop is about to send the two in vector order
C37_Witness ==
    \E pr \in Producers :
      /\ producers[pr].call = "submit_order_batch"
      /\ Len(producers[pr].pending) = 2
      /\ hash_of[producers[pr].pending[1].symbol] % PartitionCount
           = hash_of[producers[pr].pending[2].symbol] % PartitionCount
      /\ producers[pr].pending[1].seq + 1 = producers[pr].pending[2].seq

RECURSIVE FillsOf(_, _, _)
\* the quantity the trades of an incoming order of this type report for the
\* resting order with this id
FillsOf(trades, order_type, order_id) ==
    IF trades = << >> THEN 0
    ELSE (IF CounterId(order_type, Head(trades)) = order_id
          THEN Head(trades).matched_quantity ELSE 0)
           + FillsOf(Tail(trades), order_type, order_id)

\* the orders of a queue that a call's trades have not filled completely
Unfilled(q, trades, order_type) ==
    SelectSeq(q, LAMBDA o : FillsOf(trades, order_type, o.order_id) < o.quantity)

\* the orders of a queue that a call's trades have not filled completely,
\* each with its quantity reduced by the fills reported for it
AfterFills(q, trades, order_type) ==
    [k \in 1..Len(Unfilled(q, trades, order_type)) |->
        [Unfilled(q, trades, order_type)[k] EXCEPT !.quantity =
            @ - FillsOf(trades, order_type,
                        Unfilled(q, trades, order_type)[k].order_id)]]

\* the queue q2 is the queue q, with the order the call rests added or not
OwnSideKept(q, q2, new_order_id) ==
    \/ q2 = q
    \/ /\ Len(q2) = Len(q) + 1
       /\ SubSeq(q2, 1, Len(q)) = q
       /\ q2[Len(q2)].order_id = new_order_id

\* a match_order step of an incoming order of this type and price: the
\* opposite side changes by the reported fills only, its levels outside the
\* limit and the resting orders of the own side do not change
FillsOnly(order_type, price, trades, opposite, opposite2, own, own2) ==
    /\ \A k \in 1..Len(trades) :
          /\ trades[k].matched_quantity >= 1
          /\ \E i \in Levels : \E n \in 1..QLen(opposite[i]) :
                LevelOrders(opposite[i])[n].order_id
                   = CounterId(order_type, trades[k])
    /\ \A i \in Levels :
          /\ LevelOrders(opposite2[i])
               = AfterFills(LevelOrders(opposite[i]), trades, order_type)
          /\ \A n \in 1..QLen(opposite[i]) :
                FillsOf(trades, order_type, LevelOrders(opposite[i])[n].order_id)
                   <= LevelOrders(opposite[i])[n].quantity
          /\ (IF order_type = "Buy" THEN index_to_price(i) > price
                                    ELSE index_to_price(i) < price)
                => LevelOrders(opposite2[i]) = LevelOrders(opposite[i])
          /\ OwnSideKept(LevelOrders(own[i]), LevelOrders(own2[i]), next_order_id)

\* C38: match_order changes resting orders only through the fills it
\* reports: for each returned trade the named resting counter-order's
\* quantity decreases by exactly matched_quantity (and the order is removed
\* when it reaches 0), every matched_quantity is at least 1, no resting order
\* ever has quantity 0, and resting orders on the incoming order's own side
\* and on opposite levels outside its limit are untouched.
C38_MatchChangesOnlyFills ==
    [][(call'.op = "match_order" /\ ret'.result = "returned")
          => /\ IF call'.request.order_type = "Buy"
                THEN FillsOnly("Buy", call'.request.price, ret'.trades,
                               ask_levels, ask_levels', bid_levels, bid_levels')
                ELSE FillsOnly("Sell", call'.request.price, ret'.trades,
                               bid_levels, bid_levels', ask_levels, ask_levels')
             /\ \A o \in RestingOrders' : o.quantity >= 1
             /\ \A id \in DOMAIN order_locations :
                   FillsOf(ret'.trades, call'.request.order_type, id) = 0
                      => id \in DOMAIN order_locations'
      ]_vars

\* C38 witness: a Buy has traded with an ask within its limit while an ask
\* above its limit rests
C38_Witness ==
    /\ MatchReturned
    /\ call.request.order_type = "Buy"
    /\ Len(ret.trades) >= 1
    /\ \E i \in Levels :
         /\ index_to_price(i) > call.request.price
         /\ QLen(ask_levels[i]) >= 1

\* C39: whenever a partition worker finds its drained batch empty, its
\* recorded queue_depth is 0, so an idle worker always takes the
\* cooperative-yield branch and the busy-spin branch is never executed.
C39_IdleWorkerYields ==
    \A p \in Partitions :
      /\ workers[p].idle # "spin"
      /\ (workers[p].pc = "collect" /\ workers[p].batch = << >>
            /\ queues[p] = << >>)
           => workers[p].queue_depth = 0

\* C39 witness: a worker that has processed more than one batch has found
\* its queue empty and yielded
C39_Witness ==
    \E p \in Partitions :
      /\ workers[p].idle = "yield"
      /\ workers[p].orders_processed > BatchSize
      /\ workers[p].pc = "collect"

\* bitmap bm2 is bm but for the bit at index idx, and it is bm unless last
BitChangesOnlyIfLast(bm, bm2, idx, last) ==
    /\ bm2 = BitmapSet(bm, idx, BitmapGet(bm2, idx))
    /\ ~last => bm2 = bm

\* a successful cancel_order(order_id) step for an order at this location:
\* the queues lose the target and nothing else, the opposite side's bitmap
\* and best price and next_order_id stay, and the own side's bitmap bit and
\* best price stay unless the target was the last order of its level
CancelFrame(order_id, location, last) ==
    /\ \A i \in Levels :
          /\ LevelOrders(bid_levels'[i])
               = Without(LevelOrders(bid_levels[i]), order_id)
          /\ LevelOrders(ask_levels'[i])
               = Without(LevelOrders(ask_levels[i]), order_id)
    /\ order_locations' = MapRemove(order_locations, order_id)
    /\ next_order_id' = next_order_id
    /\ queue_capacity' = queue_capacity
    /\ IF location.is_bid
       THEN /\ ask_bitmap' = ask_bitmap
            /\ best_ask_idx' = best_ask_idx
            /\ BitChangesOnlyIfLast(bid_bitmap, bid_bitmap',
                                    location.price_idx, last)
            /\ ~last => best_bid_idx' = best_bid_idx
       ELSE /\ bid_bitmap' = bid_bitmap
            /\ best_bid_idx' = best_bid_idx
            /\ BitChangesOnlyIfLast(ask_bitmap, ask_bitmap',
                                    location.price_idx, last)
            /\ ~last => best_ask_idx' = best_ask_idx

\* C40: a successful cancel_order(id) changes nothing but the target order's
\* presence: the quantities, ids and order of all other resting orders on
\* both sides, the opposite side's bitmap and best-price cache, and
\* next_order_id are unchanged, and the same side's bitmap bit and best-price
\* cache change only if the cancelled order was the last one at its level.
C40_CancelChangesOnlyTarget ==
    [][(call'.op = "cancel_order" /\ ret'.result = "Ok")
          => /\ call'.order_id \in DOMAIN order_locations
             /\ CancelFrame(
                  call'.order_id, order_locations[call'.order_id],
                  QLen(CancelSlot(Book, order_locations[call'.order_id])) = 1)
      ]_vars

\* C40 witness: an order was cancelled while other orders rest on both
\* sides, one of them therefore on the side of the cancelled order
C40_Witness ==
    /\ call.op = "cancel_order"
    /\ ret.result = "Ok"
    /\ BidsRest
    /\ AsksRest

====
